---- MODULE Spec2Model ----
(***************************************************************************)
(* Per-subscriber filtering of tracing-subscriber                          *)
(* (src/tracing-subscriber/src/filter/subscriber_filters/mod.rs).          *)
(*                                                                         *)
(* A u64 is modelled as the set of the positions of its one bits, a        *)
(* subset of 0..63: bitwise OR is union, bitwise AND is intersection,      *)
(* bitwise NOT is the complement in 0..63, u64::MAX is 0..63 and 0 is {}.  *)
(* The representation is one to one, so equality of masks is equality of   *)
(* sets.                                                                   *)
(***************************************************************************)
EXTENDS Integers, FiniteSets, Sequences, TLC

\* Width of FilterId / FilterMap words (u64).
WordBits == 64

\* Number of single-bit ids in the id pool of the FilterMap / FilterState harnesses.
NumIds == 2

\* Number of single-bit ids whose unions form the id pool of the FilterId harness.
NumUnionIds == 3

\* Cap of the debug pass counters in the FilterState harness.
MaxPass == 3

\* Largest number of Filtered wrappers on the collector.
NumWrappers == 2

\* Number of span ids the registry hands out.
NumSpans == 1

\* Stages attached to the collector of the attachment harness.
MaxStages == 66

\* add_interest calls in one Interest Pass of the interest harness.
MaxAdds == 4

\* Calls made to a combinator in the combinator harness.
MaxCombCalls == 8

Bits == 0 .. (WordBits - 1)

U64_MAX == Bits

BitOr(a, b) == a \cup b

BitAnd(a, b) == a \cap b

BitNot(a) == Bits \ a

(***************************************************************************)
(* FilterId                                                                *)
(***************************************************************************)

\* FilterId::disabled(): Self(u64::MAX)
FilterId_disabled == U64_MAX

\* FilterId::none(): Self(0)
FilterId_none == {}

\* Faulty variant of the assertion of FilterId::new: index 64 passes.
FilterId_new_ok_off_by_one(i) == i <= WordBits

\* FilterId::new(id): Self(1 << id); the assertion id < 64 is the guard of
\* the callers (FilterId_new_ok).
FilterId_new_ok(i) == i < WordBits

FilterId_new(i) == {i}

\* Faulty variant of FilterId::and: the receiver is dropped in both branches.
FilterId_and_returns_other(self, other) == other

\* Faulty variant of FilterId::and: the sentinel is absorbed on both sides.
FilterId_and_absorbs_both(self, other) ==
    IF self = FilterId_disabled THEN other
    ELSE IF other = FilterId_disabled THEN self
    ELSE BitOr(self, other)

\* FilterId::and(self, other)
FilterId_and(self, other) ==
    IF self = FilterId_disabled THEN other ELSE BitOr(self, other)

(***************************************************************************)
(* FilterMap                                                               *)
(***************************************************************************)

\* FilterMap::new(): bits = 0
FilterMap_new == {}

\* Faulty variant of FilterMap::set: the polarity of `enabled` is inverted.
FilterMap_set_inverted(bits, mask, enabled) ==
    IF mask = U64_MAX THEN bits
    ELSE IF enabled THEN BitOr(bits, mask)
    ELSE BitAnd(bits, BitNot(mask))

\* Faulty variant of FilterMap::set: the DISABLED sentinel is not guarded.
FilterMap_set_unguarded(bits, mask, enabled) ==
    IF enabled THEN BitAnd(bits, BitNot(mask))
    ELSE BitOr(bits, mask)

\* Faulty variant of FilterMap::set: a rejection flips the id's bits.
FilterMap_set_toggles(bits, mask, enabled) ==
    IF mask = U64_MAX THEN bits
    ELSE IF enabled THEN BitAnd(bits, BitNot(mask))
    ELSE (bits \ mask) \cup (mask \ bits)

\* FilterMap::set(self, FilterId(mask), enabled)
FilterMap_set(bits, mask, enabled) ==
    IF mask = U64_MAX THEN bits
    ELSE IF enabled THEN BitAnd(bits, BitNot(mask))
    ELSE BitOr(bits, mask)

\* Faulty variant of FilterMap::is_enabled: an id counts as disabled only
\* when every bit of its mask is set.
FilterMap_is_enabled_all_bits(bits, mask) == BitAnd(bits, mask) # mask

\* Faulty variant of FilterMap::is_enabled: the DISABLED sentinel counts as
\* enabled whatever the map holds.
FilterMap_is_enabled_sentinel_open(bits, mask) ==
    mask = U64_MAX \/ BitAnd(bits, mask) = {}

\* FilterMap::is_enabled(self, FilterId(mask))
FilterMap_is_enabled(bits, mask) == BitAnd(bits, mask) = {}

\* Faulty variant of FilterMap::any_enabled: true only while no bit is set.
FilterMap_any_enabled_none_set(bits) == bits = {}

\* Faulty variant of FilterMap::any_enabled: the top bit is left out of the
\* comparison.
FilterMap_any_enabled_low_bits(bits) == (Bits \ {WordBits - 1}) \ bits # {}

\* FilterMap::any_enabled(self)
FilterMap_any_enabled(bits) == bits # U64_MAX

(***************************************************************************)
(* FilterState: the thread-local FILTERING cell.  The operators take and   *)
(* return the cell's value as a record; extra fields of the record (the    *)
(* effects of callbacks) are carried through unchanged.                    *)
(* interest is "none" for None and "always" / "sometimes" / "never"        *)
(* otherwise.  The debug counters are kept as state; the debug assertions  *)
(* themselves change nothing (a debug build panics where one fails, the    *)
(* model follows the build without them, except in the wide-stack harness, *)
(* which follows the debug build).                                         *)
(***************************************************************************)

\* FilterState::new()
FilterState_new ==
    [enabled |-> FilterMap_new, interest |-> "none",
     in_filter_pass |-> 0, in_interest_pass |-> 0]

\* Faulty variant of FilterState::set: the decision is written into an
\* empty map, losing the other filters' bits.
FilterState_set_from_empty(st, filter, enabled) ==
    [st EXCEPT !.in_filter_pass = @ + 1,
               !.enabled = FilterMap_set(FilterMap_new, filter, enabled)]

\* FilterState::set(&self, filter, enabled)
FilterState_set(st, filter, enabled) ==
    [st EXCEPT !.in_filter_pass = @ + 1,
               !.enabled = FilterMap_set(@, filter, enabled)]

\* Faulty variant of FilterState::did_enable: the disabled branch leaves the
\* bit set.
FilterState_did_enable_no_clear(st, filter, after_f) ==
    LET map == st.enabled
        s1 == IF FilterMap_is_enabled(map, filter) THEN after_f ELSE st
    IN  [s1 EXCEPT !.in_filter_pass = IF @ = 0 THEN 0 ELSE @ - 1]

\* Faulty variant of FilterState::did_enable: the disabled branch resets the
\* whole map.
FilterState_did_enable_clears_map(st, filter, after_f) ==
    LET map == st.enabled
        s1 == IF FilterMap_is_enabled(map, filter)
              THEN after_f
              ELSE [st EXCEPT !.enabled = FilterMap_new]
    IN  [s1 EXCEPT !.in_filter_pass = IF @ = 0 THEN 0 ELSE @ - 1]

\* Faulty variant of FilterState::did_enable: f runs whatever the map says.
FilterState_did_enable_always_runs(st, filter, after_f) ==
    LET s1 == [after_f EXCEPT !.enabled = FilterMap_set(@, filter, TRUE)]
    IN  [s1 EXCEPT !.in_filter_pass = IF @ = 0 THEN 0 ELSE @ - 1]

\* FilterState::did_enable(&self, filter, f): after_f is the thread's state
\* once the callback f has run from st (f runs before did_enable touches
\* anything).
FilterState_did_enable(st, filter, after_f) ==
    LET map == st.enabled
        s1 == IF FilterMap_is_enabled(map, filter)
              THEN after_f
              ELSE [st EXCEPT !.enabled = FilterMap_set(map, filter, TRUE)]
    IN  [s1 EXCEPT !.in_filter_pass = IF @ = 0 THEN 0 ELSE @ - 1]

\* Faulty variant of FilterState::and: f is evaluated whatever the map
\* says, and its result alone is written back.
FilterState_and_always_evaluates(st, filter, fres) ==
    [st |-> [st EXCEPT !.enabled = FilterMap_set(st.enabled, filter, fres)],
     r |-> fres, called |-> TRUE]

\* FilterState::and(&self, filter, f): fres is what f() returns when it is
\* evaluated.  Returns the new state, the result and whether f was called.
FilterState_and(st, filter, fres) ==
    LET map == st.enabled
        called == FilterMap_is_enabled(map, filter)
        enabled == called /\ fres
    IN  [st |-> [st EXCEPT !.enabled = FilterMap_set(map, filter, enabled)],
         r |-> enabled, called |-> called]

\* FilterState::event_enabled(): the result, and the state with the debug
\* counter reset when nothing is enabled.
FilterState_event_enabled(st) ==
    LET enabled == FilterMap_any_enabled(st.enabled)
    IN  [st |-> IF enabled THEN st ELSE [st EXCEPT !.in_filter_pass = 0],
         r |-> enabled]

\* FilterState::clear_enabled()
FilterState_clear_enabled(st) ==
    [st EXCEPT !.enabled = FilterMap_new, !.in_filter_pass = 0]

\* Faulty variant of FilterState::filter_map: an empty map is handed out.
FilterState_filter_map_empty(st) == FilterMap_new

\* FilterState::filter_map(&self)
FilterState_filter_map(st) == st.enabled

\* The debug assertions of FilterState::set, as predicates of the state
\* set is called in.
DebugAssert_set(st) ==
    /\ st.in_filter_pass = 0 => st.enabled = FilterMap_new
    /\ st.in_interest_pass = 0

\* The debug assertion of FilterState::event_enabled().
DebugAssert_event_enabled(st) ==
    st.in_filter_pass = 0 => st.enabled = FilterMap_new

\* The debug assertions of FilterState::did_enable, as predicates of the
\* state did_enable is called in: they look at the map after the branch
\* and at the counter before it is decremented.
DebugAssert_did_enable(st, filter, after_f) ==
    LET map == st.enabled
        s1 == IF FilterMap_is_enabled(map, filter)
              THEN after_f
              ELSE [st EXCEPT !.enabled = FilterMap_set(map, filter, TRUE)]
    IN  /\ s1.in_filter_pass <= 1 => s1.enabled = FilterMap_new
        /\ s1.in_interest_pass = 0

\* The debug assertion of FilterState::filter_map.
DebugAssert_filter_map(st) ==
    st.in_filter_pass = 0 => st.enabled = FilterMap_new

\* The three values of Interest.
Interests == {"always", "sometimes", "never"}

\* Faulty variant of FilterState::add_interest: the last interest replaces
\* the aggregate.
FilterState_add_interest_overwrites(st, interest) ==
    [st EXCEPT !.in_interest_pass = @ + 1, !.interest = interest]

\* FilterState::add_interest(&self, interest)
FilterState_add_interest(st, interest) ==
    LET curr == st.interest
        next == IF curr # "none"
                THEN IF \/ (curr = "always" /\ interest # "always")
                        \/ (curr = "never" /\ interest # "never")
                     THEN "sometimes"
                     ELSE curr
                ELSE interest
    IN  [st EXCEPT !.in_interest_pass = @ + 1, !.interest = next]

\* Faulty variant of FilterState::take_interest: the aggregate is read and
\* left in the cell.
FilterState_take_interest_leaves_aggregate(st) ==
    [st |-> [st EXCEPT !.in_interest_pass = 0], r |-> st.interest]

\* Faulty variant of FilterState::take_interest: the pass counter is kept.
FilterState_take_interest_keeps_counter(st) ==
    [st |-> [st EXCEPT !.interest = "none"], r |-> st.interest]

\* FilterState::take_interest(), the thread-local being accessible: the
\* aggregate is taken out of the cell and the pass counter reset.
FilterState_take_interest(st) ==
    [st |-> [st EXCEPT !.in_interest_pass = 0, !.interest = "none"],
     r |-> st.interest]

\* Faulty variant of FilterState::event_enabled(): a destroyed thread-local
\* counts as nothing enabled.
FilterState_event_enabled_try_false(alive, st) ==
    IF alive THEN FilterState_event_enabled(st) ELSE [st |-> st, r |-> FALSE]

\* FilterState::event_enabled() as the registry calls it:
\* FILTERING.try_with(..).unwrap_or(true).
FilterState_event_enabled_try(alive, st) ==
    IF alive THEN FilterState_event_enabled(st) ELSE [st |-> st, r |-> TRUE]

\* FilterState::take_interest() as the registry calls it:
\* FILTERING.try_with(..).ok()?
FilterState_take_interest_try(alive, st) ==
    IF alive THEN FilterState_take_interest(st) ELSE [st |-> st, r |-> "none"]

\* FilterState::clear_enabled() as the stack calls it: the Result of
\* FILTERING.try_with is dropped.
FilterState_clear_enabled_try(alive, st) ==
    IF alive THEN FilterState_clear_enabled(st) ELSE st

(***************************************************************************)
(* State                                                                   *)
(***************************************************************************)
VARIABLES
    andCall,        \* FilterId harness: the last FilterId::and call
    m,              \* FilterMap harness: the map under test
    lastSet,        \* FilterMap harness: per id, the argument of its last set
    FILTERING,      \* the thread-local FilterState
    stateCall,      \* FilterState harness: the last call and what it did
    nw,             \* number of Filtered wrappers on the collector
    parent,         \* parent[w]: the wrapper whose wrapped stage holds w, or 0
    id,             \* id[w]: Filtered.id
    next_filter_id, \* the collector's filter id counter
    pc,             \* the collector's position in a dispatch
    occ,            \* the occurrence being dispatched
    todo,           \* top-level wrappers the current pass has yet to call
    recorded,       \* recorded[w]: w's filter decision for the occurrence
    ret,            \* ret[w]: what w's enabled, then its event_enabled, returned
    leafRet,        \* leafRet[w]: what w's own subscriber's enabled returned
    forwarded,      \* forwarded[w]: on_event / on_new_span calls w forwarded
    overall,        \* what FilterState::event_enabled() told the registry
    outcome,        \* how the last dispatch ended
    spans,          \* spans[s]: the registry's data of span s, with its FilterMap,
                    \* the wrappers that forwarded its on_new_span (fwd) and
                    \* whether one of them has since rejected an occurrence
    evq,            \* evq[w]: w's event_enabled call: the decision recorded
                    \* before it (was), whether w's id was enabled in the map
                    \* (open) and the filter's answer or "skipped" (ans);
                    \* and w's on_event / on_new_span call: whether it ran
                    \* (called), the thread's map it found (seen) and the
                    \* map it left (left)
    cs,             \* the callsite registration in progress or last completed
    lifeCall,       \* the last span lifecycle call and the wrappers it reached
    tls,            \* the FILTERING thread-local slot: alive, or destroyed
    added,          \* interest harness: the add_interest arguments of this pass
    comb,           \* combinator harness: the call-counting stubs and the last call
    attach,         \* attachment harness: a collector being built
    builtin,        \* built-in filter harness: the last call and its result
    wide            \* wide-stack harness: a flat stack of up to 64 wrappers

vars == <<andCall, m, lastSet, FILTERING, stateCall, nw, parent, id,
          next_filter_id, pc, occ, todo, recorded, ret, leafRet, forwarded,
          overall, outcome, spans, evq, cs, lifeCall, tls, added, comb, attach, builtin, wide>>

idVars == <<andCall>>

mapVars == <<m, lastSet>>

stateVars == <<FILTERING, stateCall>>

collectorVars == <<nw, parent, id, next_filter_id, pc, occ, todo, recorded,
                   ret, leafRet, forwarded, overall, outcome, spans, evq, cs,
                   lifeCall>>

auxVars == <<tls, added, comb, attach, builtin, wide>>

Bool(b) == IF b THEN "true" ELSE "false"

AllWrappers == 1 .. NumWrappers

SpanIds == 1 .. NumSpans

\* The span ids the registry can hold: one more than the collector model
\* creates, for the harness that needs a span and a different span that it
\* follows.
RegistrySpanIds == 1 .. (NumSpans + 1)

\* The union of the single-bit ids new(k), new(k+1), ..., new(63).
HighMask(k) == {b \in Bits : b >= k}

\* Ids given to the FilterMap and FilterState harnesses: single-bit ids,
\* unions of two neighbours, the union of all the others, none() and the
\* DISABLED sentinel.
MapIds ==
    {FilterId_new(k) : k \in 0 .. (NumIds - 1)}
       \cup {FilterId_and(FilterId_new(k), FilterId_new(k + 1)) : k \in 0 .. (NumIds - 2)}
       \cup {HighMask(NumIds), FilterId_none, FilterId_disabled}

\* Ids given to the FilterId harness: every union of single-bit ids below
\* NumUnionIds (none() is the empty union), the union of all the others and
\* the DISABLED sentinel.
UnionIds ==
    (SUBSET (0 .. (NumUnionIds - 1))) \cup {HighMask(NumUnionIds), FilterId_disabled}

InitId == andCall = [a |-> FilterId_none, b |-> FilterId_none,
                     ab |-> FilterId_none, ba |-> FilterId_none, done |-> FALSE]

InitMap ==
    /\ m = FilterMap_new
    /\ lastSet = [i \in MapIds |-> "none"]

InitState ==
    /\ FILTERING = FilterState_new
    /\ stateCall = [op |-> "none", id |-> FilterId_none, was_enabled |-> FALSE,
                    ran |-> 0, res |-> "none", before |-> FilterMap_new,
                    interest |-> "none"]

\* Neither Filtered::event_enabled nor Filtered::on_event / on_new_span has
\* run for the wrapper.
NoEventQuery ==
    [was |-> "none", open |-> "none", ans |-> "none",
     called |-> FALSE, seen |-> FilterMap_new, left |-> FilterMap_new]

InitCollectorRest ==
    /\ id = [w \in AllWrappers |-> FilterId_disabled]
    /\ next_filter_id = 0
    /\ pc = "build"
    /\ occ = [kind |-> "none", span |-> 0]
    /\ todo = {}
    /\ recorded = [w \in AllWrappers |-> "none"]
    /\ ret = [w \in AllWrappers |-> "none"]
    /\ leafRet = [w \in AllWrappers |-> "none"]
    /\ forwarded = [w \in AllWrappers |-> 0]
    /\ overall = "none"
    /\ outcome = "none"
    /\ spans = [s \in RegistrySpanIds |->
                   [created |-> FALSE, filter_map |-> FilterMap_new,
                    fwd |-> {}, flipped |-> FALSE, rej |-> {}]]
    /\ evq = [w \in AllWrappers |-> NoEventQuery]
    /\ cs = [ans |-> [w \in AllWrappers |-> "none"],
             ret |-> [w \in AllWrappers |-> "none"],
             adds |-> [w \in AllWrappers |-> 0],
             added |-> [w \in AllWrappers |-> "none"],
             sub |-> [w \in AllWrappers |-> "none"],
             result |-> "none"]
    /\ lifeCall = [hook |-> "none", span |-> 0, follows |-> 0, top |-> 0,
                   reached |-> {}]

\* A collector under construction: nw wrappers made by Filtered::new, each
\* at the top level or inside the wrapped stage of an earlier wrapper.
InitCollector ==
    /\ nw \in AllWrappers
    /\ parent \in [AllWrappers -> 0 .. NumWrappers]
    /\ \A w \in AllWrappers : parent[w] < w /\ (w > nw => parent[w] = 0)
    /\ InitCollectorRest

\* The harnesses below call the types directly, with no collector.
InitNoCollector ==
    /\ nw = 0
    /\ parent = [w \in AllWrappers |-> 0]
    /\ InitCollectorRest

\* The combinator harness before a call: the stubs' counters, and no call
\* recorded.  op and m name the combinator and the method called; a, b, ia
\* and ea are the answers the stubs give to the occurrence (enabled of A and
\* of B, callsite_enabled and event_enabled of A); r, ir and er are what the
\* combinator's enabled, callsite_enabled and event_enabled returned; imid
\* is what the inner Not of Not(Not(A)) returned; acc tells whether the
\* event passed both enabled and event_enabled.
NoCombCall(a_calls, b_calls, calls) ==
    [op |-> "none", m |-> "none",
     a_calls |-> a_calls, b_calls |-> b_calls, calls |-> calls,
     a |-> FALSE, b |-> FALSE, a_ran |-> FALSE, b_ran |-> FALSE, r |-> FALSE,
     ia |-> "none", imid |-> "none", ir |-> "none",
     ea |-> FALSE, er |-> FALSE, acc |-> FALSE]

\* The levels of an occurrence, ERROR = 1 up to TRACE = 5, and the level
\* filters, OFF = 0 and then one per level.
Levels == 1 .. 5

LevelFilters == 0 .. 5

\* Option<LevelFilter> as a set: None is {}, Some(t) is {t}.
Hints == {{}} \cup {{t} : t \in LevelFilters}

\* A stub filter is the four answers it gives to one occurrence.
StubFilters ==
    [enabled : BOOLEAN, event_enabled : BOOLEAN, callsite_enabled : Interests,
     max_level_hint : Hints]

\* Option<F> as a sequence: None is << >>, Some(f) is <<f>>.
OptionFilters == {<< >>} \cup {<<f>> : f \in StubFilters}

\* The built-in filter harness before a call.  kind and m name the filter
\* and the method called; self is the optional filter, level and threshold
\* the occurrence's level and the level filter; r, ir and hr are the
\* boolean, the Interest and the hint returned.
NoBuiltinCall ==
    [kind |-> "none", m |-> "none", self |-> << >>, level |-> 0,
     threshold |-> 0, r |-> FALSE, ir |-> "none", hr |-> {}]

\* The thread-local slot is alive, no interest was added, the combinator's
\* stubs were not called, the attachment harness's collector has no stage.
InitAux ==
    /\ tls = [alive |-> TRUE, last |-> FilterState_new]
    /\ added = <<>>
    /\ comb = NoCombCall(0, 0, 0)
    /\ builtin = NoBuiltinCall
    /\ wide = [n |-> 0, pc |-> "build", kind |-> "none", k |-> 0,
               rej |-> {}, rej2 |-> {}, overall |-> "none",
               outcome |-> "none", failed |-> "none"]
    /\ attach = [stages |-> 0, next |-> 0, ids |-> <<>>, failed |-> FALSE]

InitHarness == InitId /\ InitMap /\ InitState /\ InitNoCollector /\ InitAux

Init == InitId /\ InitMap /\ InitState /\ InitCollector /\ InitAux

(***************************************************************************)
(* FilterId harness: FilterId::and applied to two ids of UnionIds, in both *)
(* orders.                                                                 *)
(***************************************************************************)
CallFilterIdAnd(a, b) ==
    /\ andCall' = [a |-> a, b |-> b, ab |-> FilterId_and(a, b),
                   ba |-> FilterId_and(b, a), done |-> TRUE]
    /\ UNCHANGED <<mapVars, stateVars, collectorVars>>
    /\ UNCHANGED auxVars

NextId == \E a \in UnionIds, b \in UnionIds : CallFilterIdAnd(a, b)

SpecId == InitHarness /\ [][NextId]_vars

(***************************************************************************)
(* FilterMap harness: a sequence of FilterMap::set calls from the empty    *)
(* map.                                                                    *)
(***************************************************************************)
CallFilterMapSet(i, enabled) ==
    /\ m' = FilterMap_set(m, i, enabled)
    /\ lastSet' = [lastSet EXCEPT ![i] = IF enabled THEN "true" ELSE "false"]
    /\ UNCHANGED <<idVars, stateVars, collectorVars>>
    /\ UNCHANGED auxVars

NextMap == \E i \in MapIds, enabled \in BOOLEAN : CallFilterMapSet(i, enabled)

SpecMap == InitHarness /\ [][NextMap]_vars

(***************************************************************************)
(* FilterState harness: FilterState::set and FilterState::did_enable       *)
(* called directly on the thread's cell, with a callback that only counts  *)
(* its invocations.                                                        *)
(***************************************************************************)
CallFilterStateSet(i, enabled) ==
    /\ FILTERING.in_filter_pass < MaxPass
    /\ FILTERING' = FilterState_set(FILTERING, i, enabled)
    /\ stateCall' = [op |-> "set", id |-> i, was_enabled |-> enabled, ran |-> 0,
                     res |-> "none", before |-> FILTERING.enabled,
                     interest |-> FILTERING.interest]
    /\ UNCHANGED <<idVars, mapVars, collectorVars>>
    /\ UNCHANGED auxVars

\* FilterState::and called with a predicate that answers fres and counts
\* its evaluations.
CallFilterStateAnd(i, fres) ==
    LET a == FilterState_and(FILTERING, i, fres)
    IN  /\ FILTERING' = a.st
        /\ stateCall' = [op |-> "and", id |-> i,
                         was_enabled |-> FilterMap_is_enabled(FILTERING.enabled, i),
                         ran |-> IF a.called THEN 1 ELSE 0, res |-> Bool(a.r),
                         before |-> FILTERING.enabled,
                         interest |-> FILTERING.interest]
        /\ UNCHANGED <<idVars, mapVars, collectorVars>>
        /\ UNCHANGED auxVars

CallFilterStateDidEnable(i) ==
    LET st == FILTERING @@ [ran |-> 0]
        after_f == [st EXCEPT !.ran = @ + 1]
        res == FilterState_did_enable(st, i, after_f)
    IN  /\ FILTERING' = [k \in DOMAIN FILTERING |-> res[k]]
        /\ stateCall' = [op |-> "did_enable", id |-> i,
                         was_enabled |-> FilterMap_is_enabled(FILTERING.enabled, i),
                         ran |-> res.ran, res |-> "none",
                         before |-> FILTERING.enabled,
                         interest |-> FILTERING.interest]
        /\ UNCHANGED <<idVars, mapVars, collectorVars>>
        /\ UNCHANGED auxVars

NextState ==
    \/ \E i \in MapIds, enabled \in BOOLEAN : CallFilterStateSet(i, enabled)
    \/ \E i \in MapIds, fres \in BOOLEAN : CallFilterStateAnd(i, fres)
    \/ \E i \in MapIds : CallFilterStateDidEnable(i)

SpecState == InitHarness /\ [][NextState]_vars

(***************************************************************************)
(* Attachment harness: stages are attached to one collector one after      *)
(* another, each a Filtered wrapper (whose on_subscribe takes an id from   *)
(* the collector's register_filter) or a plain subscriber (which takes     *)
(* none).  A failed assertion of FilterId::new ends the construction.      *)
(***************************************************************************)
\* The collector's register_filter(): FilterId::new(next_filter_id), and the
\* counter moves on.  next is the counter; ok tells whether the assertion
\* of FilterId::new passes.
Registry_register_filter(next) ==
    [ok |-> FilterId_new_ok(next), id |-> FilterId_new(next), next |-> next + 1]

\* Filtered::on_subscribe of a wrapper with a plain wrapped stage.
AttachFiltered ==
    /\ ~attach.failed
    /\ attach.stages < MaxStages
    /\ LET r == Registry_register_filter(attach.next)
       IN  attach' = IF r.ok
                     THEN [stages |-> attach.stages + 1, next |-> r.next,
                           ids |-> Append(attach.ids, r.id), failed |-> FALSE]
                     ELSE [attach EXCEPT !.failed = TRUE]
    /\ UNCHANGED <<idVars, mapVars, stateVars, collectorVars, tls, added, comb, builtin, wide>>

\* on_subscribe of a stage that is not a Filtered wrapper.
AttachPlain ==
    /\ ~attach.failed
    /\ attach.stages < MaxStages
    /\ attach' = [attach EXCEPT !.stages = @ + 1]
    /\ UNCHANGED <<idVars, mapVars, stateVars, collectorVars, tls, added, comb, builtin, wide>>

NextAttach == AttachFiltered \/ AttachPlain

SpecAttach == InitHarness /\ [][NextAttach]_vars

(***************************************************************************)
(* Thread harness: the crate-internal entry points of FilterState called   *)
(* directly on one thread, which may begin its teardown: after that the    *)
(* FILTERING slot is destroyed and try_with fails.                         *)
(***************************************************************************)
\* FilterState::set through FILTERING.with, outside an Interest Pass.
CallThreadSet(i, enabled) ==
    /\ tls.alive
    /\ FILTERING.in_interest_pass = 0
    /\ CallFilterStateSet(i, enabled)

\* FilterState::add_interest through FILTERING.with.
CallAddInterest(i) ==
    /\ tls.alive
    /\ Len(added) < MaxAdds
    /\ FILTERING' = FilterState_add_interest(FILTERING, i)
    /\ added' = Append(added, i)
    /\ stateCall' = [op |-> "add_interest", id |-> FilterId_none,
                     was_enabled |-> FALSE, ran |-> 0, res |-> "none"]
    /\ UNCHANGED <<idVars, mapVars, collectorVars, tls, comb, attach, builtin, wide>>

CallTakeInterest ==
    /\ LET tk == FilterState_take_interest_try(tls.alive, FILTERING)
       IN  /\ FILTERING' = tk.st
           /\ stateCall' = [op |-> "take_interest", id |-> FilterId_none,
                            was_enabled |-> FALSE, ran |-> 0, res |-> tk.r,
                            pending |-> added]
    /\ added' = IF tls.alive THEN <<>> ELSE added
    /\ UNCHANGED <<idVars, mapVars, collectorVars, tls, comb, attach, builtin, wide>>

CallClearEnabled ==
    /\ FILTERING' = FilterState_clear_enabled_try(tls.alive, FILTERING)
    /\ stateCall' = [op |-> "clear_enabled", id |-> FilterId_none,
                     was_enabled |-> FALSE, ran |-> 0, res |-> "none"]
    /\ UNCHANGED <<idVars, mapVars, collectorVars, auxVars>>

CallEventEnabledStatic ==
    /\ LET e == FilterState_event_enabled_try(tls.alive, FILTERING)
       IN  /\ FILTERING' = e.st
           /\ stateCall' = [op |-> "event_enabled", id |-> FilterId_none,
                            was_enabled |-> FALSE, ran |-> 0,
                            res |-> IF e.r THEN "true" ELSE "false"]
    /\ UNCHANGED <<idVars, mapVars, collectorVars, auxVars>>

\* The thread begins its teardown: the slot's destructor has run.
ThreadTeardown ==
    /\ tls.alive
    /\ tls' = [alive |-> FALSE, last |-> FILTERING]
    /\ stateCall' = [op |-> "teardown", id |-> FilterId_none,
                     was_enabled |-> FALSE, ran |-> 0, res |-> "none"]
    /\ UNCHANGED <<idVars, mapVars, collectorVars, FILTERING, added, comb, attach, builtin, wide>>

NextThread ==
    \/ \E i \in MapIds, enabled \in BOOLEAN : CallThreadSet(i, enabled)
    \/ \E i \in Interests : CallAddInterest(i)
    \/ CallTakeInterest
    \/ CallClearEnabled
    \/ CallEventEnabledStatic
    \/ ThreadTeardown

SpecThread == InitHarness /\ [][NextThread]_vars

(***************************************************************************)
(* Frame harness: FilterState::set, and and did_enable called directly on  *)
(* the thread's cell while add_interest and take_interest move the         *)
(* aggregated Interest, in a build without debug assertions.               *)
(***************************************************************************)
NextFrame ==
    \/ NextState
    \/ \E i \in Interests : CallAddInterest(i)
    \/ CallTakeInterest

SpecFrame == InitHarness /\ [][NextFrame]_vars

(***************************************************************************)
(* The combinator harness: And(A, B) built by FilterExt::and over two      *)
(* call-counting stub filters.  A stub's enabled counts the call and gives *)
(* the answer chosen for it; a and b keep the answers the stubs would give *)
(* to the occurrence, a_ran and b_ran whether they were asked.             *)
(***************************************************************************)
Stub_enabled(c, which, ans) ==
    IF which = "a"
    THEN [c |-> [c EXCEPT !.a_calls = @ + 1, !.a_ran = TRUE], r |-> ans]
    ELSE [c |-> [c EXCEPT !.b_calls = @ + 1, !.b_ran = TRUE], r |-> ans]

\* And::enabled with both children always asked.
And_enabled_eager(c, a, b) ==
    LET ea == Stub_enabled(c, "a", a)
        eb == Stub_enabled(ea.c, "b", b)
    IN  [c |-> eb.c, r |-> ea.r /\ eb.r]

\* And::enabled: a.enabled(..) && b.enabled(..), the second child asked
\* only when the first accepted.
And_enabled(c, a, b) ==
    LET ea == Stub_enabled(c, "a", a)
    IN  IF ea.r
        THEN LET eb == Stub_enabled(ea.c, "b", b)
             IN  [c |-> eb.c, r |-> eb.r]
        ELSE [c |-> ea.c, r |-> FALSE]

\* a.and(b).enabled(e), the stubs answering a and b for e.
CallAndEnabled(a, b) ==
    /\ comb.calls < MaxCombCalls
    /\ LET c0 == [NoCombCall(comb.a_calls, comb.b_calls, comb.calls)
                     EXCEPT !.op = "and", !.m = "enabled", !.a = a, !.b = b]
           e  == And_enabled(c0, a, b)
       IN  comb' = [e.c EXCEPT !.r = e.r, !.calls = @ + 1]
    /\ UNCHANGED <<idVars, mapVars, stateVars, collectorVars,
                   tls, added, attach, builtin, wide>>

\* Or::enabled with both children always asked.
Or_enabled_eager(c, a, b) ==
    LET ea == Stub_enabled(c, "a", a)
        eb == Stub_enabled(ea.c, "b", b)
    IN  [c |-> eb.c, r |-> ea.r \/ eb.r]

\* Or::enabled: a.enabled(..) || b.enabled(..), the second child asked
\* only when the first rejected.
Or_enabled(c, a, b) ==
    LET ea == Stub_enabled(c, "a", a)
    IN  IF ea.r
        THEN [c |-> ea.c, r |-> TRUE]
        ELSE LET eb == Stub_enabled(ea.c, "b", b)
             IN  [c |-> eb.c, r |-> eb.r]

\* a.or(b).enabled(e), the stubs answering a and b for e.
CallOrEnabled(a, b) ==
    /\ comb.calls < MaxCombCalls
    /\ LET c0 == [NoCombCall(comb.a_calls, comb.b_calls, comb.calls)
                     EXCEPT !.op = "or", !.m = "enabled", !.a = a, !.b = b]
           e  == Or_enabled(c0, a, b)
       IN  comb' = [e.c EXCEPT !.r = e.r, !.calls = @ + 1]
    /\ UNCHANGED <<idVars, mapVars, stateVars, collectorVars,
                   tls, added, attach, builtin, wide>>

\* Not::callsite_enabled with the child's Interest passed through.
Not_callsite_enabled_uninverted(ia) == ia

\* Not::callsite_enabled: always becomes never, never becomes always,
\* anything else is sometimes.
Not_callsite_enabled(ia) ==
    IF ia = "always" THEN "never"
    ELSE IF ia = "never" THEN "always"
    ELSE "sometimes"

\* Not::enabled: !a.enabled(..).
Not_enabled(c, a) ==
    LET ea == Stub_enabled(c, "a", a)
    IN  [c |-> ea.c, r |-> ~ea.r]

\* Not::event_enabled with the child's answer inverted.
Not_event_enabled_inverted(ea) == ~ea

\* Not::event_enabled: a.event_enabled(..), as it is.
Not_event_enabled(ea) == ea

\* a.not().callsite_enabled(meta), the stub answering ia for meta.
CallNotCallsiteEnabled(ia) ==
    /\ comb' = [NoCombCall(comb.a_calls, comb.b_calls, comb.calls)
                   EXCEPT !.op = "not", !.m = "callsite_enabled", !.ia = ia,
                          !.ir = Not_callsite_enabled(ia)]
    /\ UNCHANGED <<idVars, mapVars, stateVars, collectorVars,
                   tls, added, attach, builtin, wide>>

\* a.not().not().callsite_enabled(meta).
CallNotNotCallsiteEnabled(ia) ==
    /\ LET inner == Not_callsite_enabled(ia)
       IN  comb' = [NoCombCall(comb.a_calls, comb.b_calls, comb.calls)
                      EXCEPT !.op = "notnot", !.m = "callsite_enabled",
                             !.ia = ia, !.imid = inner,
                             !.ir = Not_callsite_enabled(inner)]
    /\ UNCHANGED <<idVars, mapVars, stateVars, collectorVars,
                   tls, added, attach, builtin, wide>>

\* a.not().enabled(e).
CallNotEnabled(a) ==
    /\ comb.calls < MaxCombCalls
    /\ LET c0 == [NoCombCall(comb.a_calls, comb.b_calls, comb.calls)
                     EXCEPT !.op = "not", !.m = "enabled", !.a = a]
           e  == Not_enabled(c0, a)
       IN  comb' = [e.c EXCEPT !.r = e.r, !.calls = @ + 1]
    /\ UNCHANGED <<idVars, mapVars, stateVars, collectorVars,
                   tls, added, attach, builtin, wide>>

\* a.not().not().enabled(e): the outer Not inverts what the inner returns.
CallNotNotEnabled(a) ==
    /\ comb.calls < MaxCombCalls
    /\ LET c0 == [NoCombCall(comb.a_calls, comb.b_calls, comb.calls)
                     EXCEPT !.op = "notnot", !.m = "enabled", !.a = a]
           e  == Not_enabled(c0, a)
       IN  comb' = [e.c EXCEPT !.r = ~e.r, !.calls = @ + 1]
    /\ UNCHANGED <<idVars, mapVars, stateVars, collectorVars,
                   tls, added, attach, builtin, wide>>

\* a.not().event_enabled(ev), the stub answering ea for ev.
CallNotEventEnabled(ea) ==
    /\ comb' = [NoCombCall(comb.a_calls, comb.b_calls, comb.calls)
                   EXCEPT !.op = "not", !.m = "event_enabled", !.ea = ea,
                          !.er = Not_event_enabled(ea)]
    /\ UNCHANGED <<idVars, mapVars, stateVars, collectorVars,
                   tls, added, attach, builtin, wide>>

\* An event offered to a.not(): enabled() && event_enabled(), the event
\* accepted when both accept.
CallNotEvent(a, ea) ==
    /\ comb.calls < MaxCombCalls
    /\ LET c0 == [NoCombCall(comb.a_calls, comb.b_calls, comb.calls)
                     EXCEPT !.op = "not", !.m = "event", !.a = a, !.ea = ea]
           e  == Not_enabled(c0, a)
           er == IF e.r THEN Not_event_enabled(ea) ELSE FALSE
       IN  comb' = [e.c EXCEPT !.r = e.r, !.er = er, !.acc = e.r /\ er,
                               !.calls = @ + 1]
    /\ UNCHANGED <<idVars, mapVars, stateVars, collectorVars,
                   tls, added, attach, builtin, wide>>

NextComb ==
    \/ \E a \in BOOLEAN, b \in BOOLEAN : CallAndEnabled(a, b)
    \/ \E a \in BOOLEAN, b \in BOOLEAN : CallOrEnabled(a, b)
    \/ \E ia \in Interests : CallNotCallsiteEnabled(ia)
    \/ \E ia \in Interests : CallNotNotCallsiteEnabled(ia)
    \/ \E a \in BOOLEAN : CallNotEnabled(a)
    \/ \E a \in BOOLEAN : CallNotNotEnabled(a)
    \/ \E ea \in BOOLEAN : CallNotEventEnabled(ea)
    \/ \E a \in BOOLEAN, ea \in BOOLEAN : CallNotEvent(a, ea)

SpecComb == InitHarness /\ [][NextComb]_vars

(***************************************************************************)
(* The built-in filter harness: the Filter implementations of LevelFilter  *)
(* and of Option<F>, F a stub filter, each method called on its own.       *)
(***************************************************************************)
\* LevelFilter::enabled: meta.level() <= self.
LevelFilter_enabled(self, level) == level <= self

\* LevelFilter::callsite_enabled with the comparison made strict.
LevelFilter_callsite_enabled_strict(self, level) ==
    IF level < self THEN "always" ELSE "never"

LevelFilter_callsite_enabled(self, level) ==
    IF level <= self THEN "always" ELSE "never"

\* LevelFilter::max_level_hint: Some(*self).
LevelFilter_max_level_hint(self) == {self}

\* Option<F>::enabled with None rejecting.
Option_enabled_none_rejects(self) ==
    IF Len(self) = 0 THEN FALSE ELSE self[1].enabled

\* Option<F>::enabled: the inner filter's answer, true for None.
Option_enabled(self) ==
    IF Len(self) = 0 THEN TRUE ELSE self[1].enabled

\* Option<F>::callsite_enabled: the inner filter's answer, always for None.
Option_callsite_enabled(self) ==
    IF Len(self) = 0 THEN "always" ELSE self[1].callsite_enabled

\* Option<F>::max_level_hint: the inner filter's hint, None for None.
Option_max_level_hint(self) ==
    IF Len(self) = 0 THEN {} ELSE self[1].max_level_hint

\* Option<F>::event_enabled: the inner filter's answer, true for None.
Option_event_enabled(self) ==
    IF Len(self) = 0 THEN TRUE ELSE self[1].event_enabled

CallLevelEnabled(self, level) ==
    /\ builtin' = [NoBuiltinCall EXCEPT !.kind = "level", !.m = "enabled",
                                        !.threshold = self, !.level = level,
                                        !.r = LevelFilter_enabled(self, level)]
    /\ UNCHANGED <<idVars, mapVars, stateVars, collectorVars,
                   tls, added, comb, attach, wide>>
CallLevelCallsiteEnabled(self, level) ==
    /\ builtin' = [NoBuiltinCall EXCEPT !.kind = "level", !.m = "callsite_enabled",
                                        !.threshold = self, !.level = level,
                                        !.ir = LevelFilter_callsite_enabled(self, level)]
    /\ UNCHANGED <<idVars, mapVars, stateVars, collectorVars,
                   tls, added, comb, attach, wide>>
CallLevelMaxLevelHint(self) ==
    /\ builtin' = [NoBuiltinCall EXCEPT !.kind = "level", !.m = "max_level_hint",
                                        !.threshold = self,
                                        !.hr = LevelFilter_max_level_hint(self)]
    /\ UNCHANGED <<idVars, mapVars, stateVars, collectorVars,
                   tls, added, comb, attach, wide>>
CallOptionEnabled(self) ==
    /\ builtin' = [NoBuiltinCall EXCEPT !.kind = "option", !.m = "enabled",
                                        !.self = self,
                                        !.r = Option_enabled(self)]
    /\ UNCHANGED <<idVars, mapVars, stateVars, collectorVars,
                   tls, added, comb, attach, wide>>
CallOptionCallsiteEnabled(self) ==
    /\ builtin' = [NoBuiltinCall EXCEPT !.kind = "option", !.m = "callsite_enabled",
                                        !.self = self,
                                        !.ir = Option_callsite_enabled(self)]
    /\ UNCHANGED <<idVars, mapVars, stateVars, collectorVars,
                   tls, added, comb, attach, wide>>
CallOptionMaxLevelHint(self) ==
    /\ builtin' = [NoBuiltinCall EXCEPT !.kind = "option", !.m = "max_level_hint",
                                        !.self = self,
                                        !.hr = Option_max_level_hint(self)]
    /\ UNCHANGED <<idVars, mapVars, stateVars, collectorVars,
                   tls, added, comb, attach, wide>>
CallOptionEventEnabled(self) ==
    /\ builtin' = [NoBuiltinCall EXCEPT !.kind = "option", !.m = "event_enabled",
                                        !.self = self,
                                        !.r = Option_event_enabled(self)]
    /\ UNCHANGED <<idVars, mapVars, stateVars, collectorVars,
                   tls, added, comb, attach, wide>>
NextBuiltin ==
    \/ \E t \in LevelFilters, l \in Levels : CallLevelEnabled(t, l)
    \/ \E t \in LevelFilters, l \in Levels : CallLevelCallsiteEnabled(t, l)
    \/ \E t \in LevelFilters : CallLevelMaxLevelHint(t)
    \/ \E f \in OptionFilters : CallOptionEnabled(f)
    \/ \E f \in OptionFilters : CallOptionCallsiteEnabled(f)
    \/ \E f \in OptionFilters : CallOptionMaxLevelHint(f)
    \/ \E f \in OptionFilters : CallOptionEventEnabled(f)

SpecBuiltin == InitHarness /\ [][NextBuiltin]_vars

(***************************************************************************)
(* The wide-stack harness: a debug build of a collector with n Filtered    *)
(* wrappers, all attached and all at the top level of the stack, their     *)
(* wrapped stages plain and accepting, over the registry.  Wrapper k has   *)
(* id new(k).  An occurrence is rejected in enabled by the filters of rej  *)
(* and in event_enabled by those of rej2; each pass calls the wrappers in  *)
(* the order of their ids.  A failed debug assertion panics and ends the   *)
(* run.                                                                    *)
(***************************************************************************)
WideSizes == {1, 2, WordBits - 1, WordBits}

\* The sets of rejecting filters tried on a stack of n wrappers: none, the
\* first, the last, all but the last, all.
RejectSets(n) ==
    {{}, {0}, {n - 1}, 0 .. (n - 2), 0 .. (n - 1)}

WidePanic(which) ==
    /\ wide' = [wide EXCEPT !.pc = "panicked", !.failed = which]
    /\ FILTERING' = FILTERING

\* The collector is built: n wrappers attached, ids new(0) .. new(n - 1).
WideBuild(n) ==
    /\ wide.pc = "build"
    /\ FilterId_new_ok(n - 1)
    /\ wide' = [wide EXCEPT !.n = n, !.pc = "idle"]
    /\ FILTERING' = FILTERING
    /\ UNCHANGED <<idVars, mapVars, stateCall, collectorVars, tls, added, comb,
                   attach, builtin>>

\* An occurrence reaches the collector.
WideDispatch(kind, rej, rej2) ==
    /\ wide.pc = "idle"
    /\ kind = "span" => rej2 = {}
    /\ wide' = [wide EXCEPT !.pc = "enabled", !.kind = kind, !.k = 0,
                            !.rej = rej, !.rej2 = rej2, !.overall = "none",
                            !.outcome = "none"]
    /\ FILTERING' = FILTERING
    /\ UNCHANGED <<idVars, mapVars, stateCall, collectorVars, tls, added, comb,
                   attach, builtin>>

\* Filtered::enabled of wrapper k: FilterState::set(id, decision); the
\* wrapper answers true upward.
WideEnabled ==
    /\ wide.pc = "enabled"
    /\ wide.k < wide.n
    /\ IF DebugAssert_set(FILTERING)
       THEN /\ FILTERING' = FilterState_set(FILTERING, FilterId_new(wide.k),
                                            wide.k \notin wide.rej)
            /\ wide' = [wide EXCEPT !.k = @ + 1]
       ELSE WidePanic("set")
    /\ UNCHANGED <<idVars, mapVars, stateCall, collectorVars, tls, added, comb,
                   attach, builtin>>

\* Every wrapper answered true: the registry answers enabled, and for an
\* event event_enabled, with FilterState::event_enabled().
WideRegistryEnabled ==
    /\ wide.pc \in {"enabled", "event_enabled"}
    /\ wide.k = wide.n
    /\ IF DebugAssert_event_enabled(FILTERING)
       THEN LET e == FilterState_event_enabled(FILTERING)
            IN  /\ FILTERING' = e.st
                /\ wide' = [wide EXCEPT
                       !.overall = Bool(e.r),
                       !.k = 0,
                       !.pc = IF ~e.r THEN "idle"
                              ELSE IF wide.kind = "span" THEN "new_span"
                              ELSE IF wide.pc = "enabled" THEN "event_enabled"
                              ELSE "notify",
                       !.outcome = IF e.r THEN @ ELSE "dropped"]
       ELSE WidePanic("event_enabled")
    /\ UNCHANGED <<idVars, mapVars, stateCall, collectorVars, tls, added, comb,
                   attach, builtin>>

\* Filtered::event_enabled of wrapper k: FilterState::and(id, ..); the
\* wrapper answers true upward.
WideEventEnabled ==
    /\ wide.pc = "event_enabled"
    /\ wide.k < wide.n
    /\ FILTERING' = FilterState_and(FILTERING, FilterId_new(wide.k),
                                    wide.k \notin wide.rej2).st
    /\ wide' = [wide EXCEPT !.k = @ + 1]
    /\ UNCHANGED <<idVars, mapVars, stateCall, collectorVars, tls, added, comb,
                   attach, builtin>>

\* The registry creates the span and reads the thread's map to store it.
WideRegistryNewSpan ==
    /\ wide.pc = "new_span"
    /\ IF DebugAssert_filter_map(FILTERING)
       THEN /\ wide' = [wide EXCEPT !.pc = "notify", !.k = 0]
            /\ FILTERING' = FILTERING
       ELSE WidePanic("filter_map")
    /\ UNCHANGED <<idVars, mapVars, stateCall, collectorVars, tls, added, comb,
                   attach, builtin>>

\* Filtered::on_event / on_new_span of wrapper k: FilterState::did_enable.
\* The wrapped stage is plain: the callback leaves the thread's state alone.
WideNotify ==
    /\ wide.pc = "notify"
    /\ wide.k < wide.n
    /\ IF DebugAssert_did_enable(FILTERING, FilterId_new(wide.k), FILTERING)
       THEN /\ FILTERING' = FilterState_did_enable(FILTERING,
                                 FilterId_new(wide.k), FILTERING)
            /\ wide' = [wide EXCEPT
                   !.k = @ + 1,
                   !.pc = IF wide.k + 1 = wide.n THEN "idle" ELSE @,
                   !.outcome = IF wide.k + 1 = wide.n THEN "delivered" ELSE @]
       ELSE WidePanic("did_enable")
    /\ UNCHANGED <<idVars, mapVars, stateCall, collectorVars, tls, added, comb,
                   attach, builtin>>

NextWide ==
    \/ \E n \in WideSizes : WideBuild(n)
    \/ \E kind \in {"event", "span"}, rej \in RejectSets(wide.n),
          rej2 \in RejectSets(wide.n) : WideDispatch(kind, rej, rej2)
    \/ WideEnabled
    \/ WideRegistryEnabled
    \/ WideEventEnabled
    \/ WideRegistryNewSpan
    \/ WideNotify

SpecWide == InitHarness /\ [][NextWide]_vars

(***************************************************************************)
(* The collector: a registry under a stack of stages, nw of them Filtered  *)
(* wrappers.  A wrapper's wrapped stage is its own subscriber layered with *)
(* the wrappers nested in it.  One thread dispatches one occurrence at a   *)
(* time: every top-level wrapper's enabled, the registry's enabled, for an *)
(* event every wrapper's event_enabled and the registry's, for a span the  *)
(* registry's new_span, then every wrapper's on_event / on_new_span.       *)
(***************************************************************************)
Wrappers == 1 .. nw

TopLevel == {w \in Wrappers : parent[w] = 0}

Children(w) == {c \in Wrappers : parent[c] = w}

RECURSIVE Ancestors(_)
Ancestors(w) == IF parent[w] = 0 THEN {} ELSE {parent[w]} \cup Ancestors(parent[w])

Attached(w) == id[w] # FilterId_disabled

Decision(b) == IF b THEN "enabled" ELSE "disabled"

\* cx.with_filter(self.id()): the mask of the context a wrapper hands to its
\* filter and to its wrapped stage, its ancestors' ids and its own combined
\* by FilterId::and, starting from none().
RECURSIVE CtxFilter(_)
CtxFilter(w) ==
    IF w = 0 THEN FilterId_none ELSE FilterId_and(CtxFilter(parent[w]), id[w])

\* The thread's state while a handler runs: the FILTERING cell together
\* with the record of what the handlers did for the current occurrence.
Thread ==
    FILTERING @@ [rec |-> recorded, rt |-> ret, leaf |-> leafRet, fwd |-> forwarded,
                  evq |-> evq, cs |-> cs]

Commit(t) ==
    /\ FILTERING' = [k \in DOMAIN FILTERING |-> t[k]]
    /\ recorded' = t.rec
    /\ ret' = t.rt
    /\ leafRet' = t.leaf
    /\ forwarded' = t.fwd
    /\ evq' = t.evq
    /\ cs' = t.cs

RECURSIVE Subscribe_on_subscribe(_, _, _)
RECURSIVE Filtered_on_subscribe(_, _)
\* The wrapped stage's on_subscribe: the nested wrappers from k on.
Subscribe_on_subscribe(w, k, c) ==
    IF k > nw THEN c
    ELSE IF parent[k] = w
         THEN Subscribe_on_subscribe(w, k + 1, Filtered_on_subscribe(k, c))
         ELSE Subscribe_on_subscribe(w, k + 1, c)

\* Filtered::on_subscribe: self.id = collector.register_filter(), then the
\* wrapped stage's on_subscribe.  c holds the ids and the collector's
\* counter; register_filter() is FilterId::new(counter), counter + 1.
Filtered_on_subscribe(w, c) ==
    Subscribe_on_subscribe(w, 1,
        [ids |-> [c.ids EXCEPT ![w] = FilterId_new(c.next)], next |-> c.next + 1])

RECURSIVE Subscribe_enabled(_, _, _, _, _)
RECURSIVE Filtered_enabled(_, _, _, _)
\* The wrapped stage's enabled: the nested wrappers from k on, then the
\* wrapper's own subscriber (sub[w]); the first false ends it.
Subscribe_enabled(w, k, t, dec, sub) ==
    IF k > nw THEN [t |-> [t EXCEPT !.leaf[w] = Bool(sub[w])], r |-> sub[w]]
    ELSE IF parent[k] # w THEN Subscribe_enabled(w, k + 1, t, dec, sub)
    ELSE LET c == Filtered_enabled(k, t, dec, sub)
         IN  IF c.r THEN Subscribe_enabled(w, k + 1, c.t, dec, sub)
             ELSE [t |-> c.t, r |-> FALSE]

\* Faulty variant of Filtered::enabled: a rejection by the wrapper's own
\* filter is returned upward.
Filtered_enabled_returns_decision(w, t, dec, sub) ==
    LET enabled == dec[w]
        t1 == [FilterState_set(t, id[w], enabled) EXCEPT !.rec[w] = Decision(enabled)]
        res == IF enabled THEN Subscribe_enabled(w, 1, t1, dec, sub)
               ELSE [t |-> t1, r |-> FALSE]
    IN  [t |-> [res.t EXCEPT !.rt[w] = Bool(res.r)], r |-> res.r]

\* Filtered::enabled: dec[w] is what self.filter.enabled returns.
Filtered_enabled(w, t, dec, sub) ==
    LET enabled == dec[w]
        t1 == [FilterState_set(t, id[w], enabled) EXCEPT !.rec[w] = Decision(enabled)]
        res == IF enabled THEN Subscribe_enabled(w, 1, t1, dec, sub)
               ELSE [t |-> t1, r |-> TRUE]
    IN  [t |-> [res.t EXCEPT !.rt[w] = Bool(res.r)], r |-> res.r]

RECURSIVE Subscribe_event_enabled(_, _, _, _, _)
RECURSIVE Filtered_event_enabled(_, _, _, _)
\* The wrapped stage's event_enabled.
Subscribe_event_enabled(w, k, t, dec, sub) ==
    IF k > nw THEN [t |-> t, r |-> sub[w]]
    ELSE IF parent[k] # w THEN Subscribe_event_enabled(w, k + 1, t, dec, sub)
    ELSE LET c == Filtered_event_enabled(k, t, dec, sub)
         IN  IF c.r THEN Subscribe_event_enabled(w, k + 1, c.t, dec, sub)
             ELSE [t |-> c.t, r |-> FALSE]

\* Filtered::event_enabled: dec[w] is what self.filter.event_enabled returns
\* when FilterState::and evaluates it.
Filtered_event_enabled(w, t, dec, sub) ==
    LET a == FilterState_and(t, id[w], dec[w])
        t1 == [a.st EXCEPT !.rec[w] = Decision(a.r),
                           !.evq[w] = [@ EXCEPT
                                       !.was = t.rec[w],
                                       !.open = Bool(FilterMap_is_enabled(t.enabled, id[w])),
                                       !.ans = IF a.called THEN Bool(dec[w])
                                               ELSE "skipped"]]
        res == IF a.r THEN Subscribe_event_enabled(w, 1, t1, dec, sub)
               ELSE [t |-> t1, r |-> TRUE]
    IN  [t |-> [res.t EXCEPT !.rt[w] = Bool(res.r)], r |-> res.r]

RECURSIVE Subscribe_on_event(_, _, _)
RECURSIVE Filtered_on_event(_, _)
\* The wrapped stage's on_event: the nested wrappers from k on (the
\* wrapper's own subscriber keeps no state here).
Subscribe_on_event(w, k, t) ==
    IF k > nw THEN t
    ELSE IF parent[k] = w THEN Subscribe_on_event(w, k + 1, Filtered_on_event(k, t))
    ELSE Subscribe_on_event(w, k + 1, t)

\* Filtered::on_event: did_enable around the call of the wrapped stage.
Filtered_on_event(w, t) ==
    LET r == FilterState_did_enable(t, id[w],
                 Subscribe_on_event(w, 1, [t EXCEPT !.fwd[w] = @ + 1]))
    IN  [r EXCEPT !.evq[w].called = TRUE, !.evq[w].seen = t.enabled,
                  !.evq[w].left = r.enabled]

RECURSIVE Subscribe_on_new_span(_, _, _)
RECURSIVE Filtered_on_new_span(_, _)
\* The wrapped stage's on_new_span.
Subscribe_on_new_span(w, k, t) ==
    IF k > nw THEN t
    ELSE IF parent[k] = w
         THEN Subscribe_on_new_span(w, k + 1, Filtered_on_new_span(k, t))
    ELSE Subscribe_on_new_span(w, k + 1, t)

\* Filtered::on_new_span: did_enable around the filter's hook and the call
\* of the wrapped stage.
Filtered_on_new_span(w, t) ==
    LET r == FilterState_did_enable(t, id[w],
                 Subscribe_on_new_span(w, 1, [t EXCEPT !.fwd[w] = @ + 1]))
    IN  [r EXCEPT !.evq[w].called = TRUE, !.evq[w].seen = t.enabled,
                  !.evq[w].left = r.enabled]

RECURSIVE Subscribe_register_callsite(_, _, _, _, _)
RECURSIVE Filtered_register_callsite(_, _, _, _)
\* The wrapped stage's register_callsite: the nested wrappers from k on (a
\* Filtered stage answers always, so none of them is passed over).
Subscribe_register_callsite(w, k, t, cin, sub) ==
    IF k > nw THEN t
    ELSE IF parent[k] = w
         THEN Subscribe_register_callsite(w, k + 1,
                  Filtered_register_callsite(k, t, cin, sub).t, cin, sub)
         ELSE Subscribe_register_callsite(w, k + 1, t, cin, sub)

\* Faulty variant of Filtered::register_callsite: the filter's own Interest
\* is returned upward.
Filtered_register_callsite_returns_interest(w, t, cin, sub) ==
    LET interest == cin[w]
        t1 == IF interest # "never"
              THEN [Subscribe_register_callsite(w, 1, t, cin, sub)
                       EXCEPT !.cs.sub[w] = sub[w]]
              ELSE t
        t2 == FilterState_add_interest(t1, interest)
    IN  [t |-> [t2 EXCEPT !.cs.ans[w] = interest, !.cs.adds[w] = @ + 1,
                          !.cs.added[w] = interest, !.cs.ret[w] = interest],
         r |-> interest]

\* Faulty variant of Filtered::register_callsite: the Interest the wrapped
\* stage returned is the one added, when there is one.
Filtered_register_callsite_adds_inner(w, t, cin, sub) ==
    LET interest == cin[w]
        t1 == IF interest # "never"
              THEN [Subscribe_register_callsite(w, 1, t, cin, sub)
                       EXCEPT !.cs.sub[w] = sub[w]]
              ELSE t
        mine == IF interest # "never" THEN sub[w] ELSE interest
        t2 == FilterState_add_interest(t1, mine)
    IN  [t |-> [t2 EXCEPT !.cs.ans[w] = interest, !.cs.adds[w] = @ + 1,
                          !.cs.added[w] = mine, !.cs.ret[w] = "always"],
         r |-> "always"]

\* Filtered::register_callsite: cin[w] is what self.filter.callsite_enabled
\* returns and sub[w] the Interest the wrapped stage's register_callsite
\* returns when it is called.
Filtered_register_callsite(w, t, cin, sub) ==
    LET interest == cin[w]
        t1 == IF interest # "never"
              THEN [Subscribe_register_callsite(w, 1, t, cin, sub)
                       EXCEPT !.cs.sub[w] = sub[w]]
              ELSE t
        t2 == FilterState_add_interest(t1, interest)
    IN  [t |-> [t2 EXCEPT !.cs.ans[w] = interest, !.cs.adds[w] = @ + 1,
                          !.cs.added[w] = interest, !.cs.ret[w] = "always"],
         r |-> "always"]

RECURSIVE Subtree(_)
Subtree(w) == {w} \cup UNION {Subtree(c) : c \in Children(w)}

\* What the filters and subscribers of w and of the wrappers nested in it
\* answer for the occurrence.
Inputs(w) == [Subtree(w) -> BOOLEAN]

\* What the filters of w and of the wrappers nested in it answer for the
\* callsite.
CallsiteInputs(w) == [Subtree(w) -> Interests]

\* The record of the last occurrence is dropped when the collector starts
\* on something else.
ForgetOccurrence ==
    /\ occ' = [kind |-> "none", span |-> 0]
    /\ recorded' = [w \in AllWrappers |-> "none"]
    /\ ret' = [w \in AllWrappers |-> "none"]
    /\ leafRet' = [w \in AllWrappers |-> "none"]
    /\ forwarded' = [w \in AllWrappers |-> 0]
    /\ evq' = [w \in AllWrappers |-> NoEventQuery]
    /\ overall' = "none"
    /\ outcome' = "none"

NoCallsite ==
    [ans |-> [w \in AllWrappers |-> "none"], ret |-> [w \in AllWrappers |-> "none"],
     adds |-> [w \in AllWrappers |-> 0],
     added |-> [w \in AllWrappers |-> "none"],
     sub |-> [w \in AllWrappers |-> "none"], result |-> "none"]

NoLifeCall ==
    [hook |-> "none", span |-> 0, follows |-> 0, top |-> 0, reached |-> {}]

\* The spans' records after a wrapper's enabled / event_enabled: a span is
\* flipped once a wrapper that forwarded its on_new_span has rejected a
\* later occurrence.
NoteRejections(rec) ==
    [s \in RegistrySpanIds |->
        IF spans[s].created /\ s # occ.span
              /\ \E v \in spans[s].fwd : rec[v] = "disabled"
        THEN [spans[s] EXCEPT !.flipped = TRUE]
        ELSE spans[s]]

\* The collector calls on_subscribe of a top-level stage while it is built
\* (the stages in the order of their numbers; a stage may be passed over).
OnSubscribe(w) ==
    /\ pc = "build"
    /\ w \in TopLevel
    /\ \A v \in TopLevel : v >= w => ~Attached(v)
    /\ FilterId_new_ok(next_filter_id + nw - 1)
    /\ LET c == Filtered_on_subscribe(w, [ids |-> id, next |-> next_filter_id])
       IN  id' = c.ids /\ next_filter_id' = c.next
    /\ UNCHANGED <<idVars, mapVars, stateVars, nw, parent, pc, occ, todo, recorded,
                   ret, leafRet, forwarded, overall, outcome, spans>>
    /\ UNCHANGED <<evq, cs, lifeCall, auxVars>>

\* The collector is installed; wrappers whose on_subscribe was not called
\* keep the DISABLED id of Filtered::new.
Built ==
    /\ pc = "build"
    /\ pc' = "idle"
    /\ UNCHANGED <<idVars, mapVars, stateVars, nw, parent, id, next_filter_id, occ,
                   todo, recorded, ret, leafRet, forwarded, overall, outcome, spans>>
    /\ UNCHANGED <<evq, cs, lifeCall, auxVars>>

\* A callsite emits an event, or a span with a fresh id.  (The debug counter
\* can be left above zero by a dispatch; the model stops at MaxPass.)
Dispatch(kind, s) ==
    /\ pc = "idle"
    /\ FILTERING.in_filter_pass < MaxPass
    /\ \/ kind = "event" /\ s = 0
       \/ kind = "span" /\ s \in RegistrySpanIds /\ ~spans[s].created
                        /\ \A s2 \in RegistrySpanIds : s2 < s => spans[s2].created
    /\ pc' = "enabled"
    /\ occ' = [kind |-> kind, span |-> s]
    /\ todo' = TopLevel
    /\ recorded' = [w \in AllWrappers |-> "none"]
    /\ ret' = [w \in AllWrappers |-> "none"]
    /\ leafRet' = [w \in AllWrappers |-> "none"]
    /\ forwarded' = [w \in AllWrappers |-> 0]
    /\ overall' = "none"
    /\ outcome' = "none"
    /\ UNCHANGED <<idVars, mapVars, stateVars, nw, parent, id, next_filter_id, spans>>
    /\ evq' = [w \in AllWrappers |-> NoEventQuery]
    /\ cs' = NoCallsite
    /\ lifeCall' = NoLifeCall
    /\ UNCHANGED auxVars

\* The stack asks a top-level wrapper whether the occurrence is enabled.
CallEnabled(w, dec, sub) ==
    /\ pc = "enabled"
    /\ w \in todo
    /\ \A v \in TopLevel : ret[v] # "false"
    /\ Commit(Filtered_enabled(w, Thread, dec, sub).t)
    /\ todo' = todo \ {w}
    /\ spans' = NoteRejections(recorded')
    /\ stateCall' = stateCall
    /\ UNCHANGED <<idVars, mapVars, nw, parent, id, next_filter_id, pc, occ, overall,
                   outcome>>
    /\ UNCHANGED <<lifeCall, auxVars>>

\* A stage returned false from enabled or event_enabled: the stack stops
\* asking, clears the thread's filter state and drops the occurrence.
ShortCircuit ==
    /\ pc \in {"enabled", "event_enabled"}
    /\ \E v \in TopLevel : ret[v] = "false"
    /\ FILTERING' = FilterState_clear_enabled(FILTERING)
    /\ pc' = "idle"
    /\ outcome' = "dropped"
    /\ todo' = {}
    /\ stateCall' = stateCall
    /\ UNCHANGED <<idVars, mapVars, nw, parent, id, next_filter_id, occ, recorded, ret,
                   leafRet, forwarded, overall, spans>>
    /\ UNCHANGED <<evq, cs, lifeCall, auxVars>>

\* Every stage returned true: the registry answers enabled / event_enabled
\* with FilterState::event_enabled().
RegistryEnabled ==
    /\ pc \in {"enabled", "event_enabled"}
    /\ todo = {}
    /\ \A v \in TopLevel : ret[v] # "false"
    /\ LET e == FilterState_event_enabled(FILTERING)
       IN  /\ FILTERING' = e.st
           /\ overall' = Bool(e.r)
           /\ pc' = IF ~e.r THEN "idle"
                    ELSE IF occ.kind = "span" THEN "new_span"
                    ELSE IF pc = "enabled" THEN "event_enabled"
                    ELSE "notify"
           /\ outcome' = IF e.r THEN outcome ELSE "dropped"
           /\ todo' = IF e.r /\ occ.kind = "event" THEN TopLevel ELSE {}
    /\ stateCall' = stateCall
    /\ UNCHANGED <<idVars, mapVars, nw, parent, id, next_filter_id, occ, recorded, ret,
                   leafRet, forwarded, spans>>
    /\ UNCHANGED <<evq, cs, lifeCall, auxVars>>

\* The stack asks a top-level wrapper whether the event is enabled.
CallEventEnabled(w, dec, sub) ==
    /\ pc = "event_enabled"
    /\ w \in todo
    /\ \A v \in TopLevel : ret[v] # "false"
    /\ Commit(Filtered_event_enabled(w, Thread, dec, sub).t)
    /\ todo' = todo \ {w}
    /\ spans' = NoteRejections(recorded')
    /\ stateCall' = stateCall
    /\ UNCHANGED <<idVars, mapVars, nw, parent, id, next_filter_id, pc, occ, overall,
                   outcome>>
    /\ UNCHANGED <<lifeCall, auxVars>>

\* The registry creates the span and stores the thread's FilterMap with it.
RegistryNewSpan ==
    /\ pc = "new_span"
    /\ spans' = [spans EXCEPT ![occ.span] =
                    [created |-> TRUE, filter_map |-> FilterState_filter_map(FILTERING),
                     fwd |-> {}, flipped |-> FALSE,
                     rej |-> {v \in Wrappers : recorded[v] = "disabled"}]]
    /\ pc' = "notify"
    /\ todo' = TopLevel
    /\ UNCHANGED <<idVars, mapVars, stateVars, nw, parent, id, next_filter_id, occ,
                   recorded, ret, leafRet, forwarded, overall, outcome>>
    /\ UNCHANGED <<evq, cs, lifeCall, auxVars>>

\* The stack notifies a top-level wrapper of the event.
CallOnEvent(w) ==
    /\ pc = "notify"
    /\ occ.kind = "event"
    /\ w \in todo
    /\ Commit(Filtered_on_event(w, Thread))
    /\ todo' = todo \ {w}
    /\ pc' = IF todo' = {} THEN "idle" ELSE "notify"
    /\ outcome' = IF todo' = {} THEN "delivered" ELSE outcome
    /\ stateCall' = stateCall
    /\ UNCHANGED <<idVars, mapVars, nw, parent, id, next_filter_id, occ, overall, spans>>
    /\ UNCHANGED <<lifeCall, auxVars>>

\* The stack notifies a top-level wrapper of the new span.
CallOnNewSpan(w) ==
    /\ pc = "notify"
    /\ occ.kind = "span"
    /\ w \in todo
    /\ Commit(Filtered_on_new_span(w, Thread))
    /\ todo' = todo \ {w}
    /\ pc' = IF todo' = {} THEN "idle" ELSE "notify"
    /\ outcome' = IF todo' = {} THEN "delivered" ELSE outcome
    /\ spans' = [spans EXCEPT ![occ.span].fwd =
                    @ \cup {v \in Subtree(w) : forwarded'[v] > 0}]
    /\ stateCall' = stateCall
    /\ UNCHANGED <<idVars, mapVars, nw, parent, id, next_filter_id, occ, overall>>
    /\ UNCHANGED <<lifeCall, auxVars>>

\* Context::if_enabled_for(span, filter) on a context scoped to cxf, map
\* being the FilterMap stored with the span: the span must be enabled for
\* the context's mask and for filter; the context handed on is scoped to
\* the union.
Context_if_enabled_for(cxf, map, filter) ==
    [ok |-> FilterMap_is_enabled(map, cxf) /\ FilterMap_is_enabled(map, filter),
     cx |-> FilterId_and(cxf, filter)]

RECURSIVE Subscribe_on_span_hook(_, _, _, _, _)
RECURSIVE Filtered_on_span_hook(_, _, _, _)
\* The wrapped stage's on_record / on_enter / on_exit / on_close /
\* on_id_change: the nested wrappers from k on.
Subscribe_on_span_hook(w, k, cxf, map, reached) ==
    IF k > nw THEN reached
    ELSE IF parent[k] = w
         THEN Subscribe_on_span_hook(w, k + 1, cxf, map,
                                     Filtered_on_span_hook(k, cxf, map, reached))
         ELSE Subscribe_on_span_hook(w, k + 1, cxf, map, reached)

\* Faulty variant of the span hooks of Filtered: the stored map is not
\* consulted.
Filtered_on_span_hook_unchecked(w, cxf, map, reached) ==
    Subscribe_on_span_hook(w, 1, FilterId_and(cxf, id[w]), map, reached \cup {w})

\* Filtered::on_record / on_enter / on_exit / on_close / on_id_change: the
\* filter's hook and the wrapped stage are called with the context of
\* if_enabled_for, if there is one.  reached is the set of wrappers whose
\* wrapped stage was called.
Filtered_on_span_hook(w, cxf, map, reached) ==
    LET c == Context_if_enabled_for(cxf, map, id[w])
    IN  IF c.ok THEN Subscribe_on_span_hook(w, 1, c.cx, map, reached \cup {w})
        ELSE reached

SpanHooks == {"on_record", "on_enter", "on_exit", "on_close", "on_id_change"}

\* The stack calls a span hook of a top-level wrapper for a span the
\* registry holds.
CallSpanHook(hook, s, w) ==
    /\ pc = "idle"
    /\ hook \in SpanHooks
    /\ s \in SpanIds /\ spans[s].created
    /\ w \in TopLevel
    /\ lifeCall' = [hook |-> hook, span |-> s, follows |-> 0, top |-> w,
                    reached |-> Filtered_on_span_hook(w, FilterId_none,
                                                      spans[s].filter_map, {})]
    /\ cs' = NoCallsite
    /\ ForgetOccurrence
    /\ UNCHANGED <<idVars, mapVars, stateVars, nw, parent, id, next_filter_id, pc, todo,
                   spans, auxVars>>

\* Context::is_enabled_for(span, filter) on a context scoped to cxf, map
\* being the FilterMap stored with the span.
Context_is_enabled_for(cxf, map, filter) ==
    FilterMap_is_enabled(map, cxf) /\ FilterMap_is_enabled(map, filter)

RECURSIVE Subscribe_on_follows_from(_, _, _, _, _, _)
RECURSIVE Filtered_on_follows_from(_, _, _, _, _)
\* The wrapped stage's on_follows_from: the nested wrappers from k on.
Subscribe_on_follows_from(w, k, cxf, map, fmap, reached) ==
    IF k > nw THEN reached
    ELSE IF parent[k] = w
         THEN Subscribe_on_follows_from(w, k + 1, cxf, map, fmap,
                  Filtered_on_follows_from(k, cxf, map, fmap, reached))
         ELSE Subscribe_on_follows_from(w, k + 1, cxf, map, fmap, reached)

\* Faulty variant of Filtered::on_follows_from: the followed span is not
\* looked at.
Filtered_on_follows_from_span_only(w, cxf, map, fmap, reached) ==
    IF Context_is_enabled_for(cxf, map, id[w])
    THEN Subscribe_on_follows_from(w, 1, FilterId_and(cxf, id[w]), map, fmap,
                                   reached \cup {w})
    ELSE reached

\* Filtered::on_follows_from(span, follows, cx): map and fmap are the
\* FilterMaps stored with span and with follows; the wrapped stage is
\* called with cx.with_filter(self.id()).  reached is the set of wrappers
\* whose wrapped stage was called.
Filtered_on_follows_from(w, cxf, map, fmap, reached) ==
    IF /\ Context_is_enabled_for(cxf, map, id[w])
       /\ Context_is_enabled_for(cxf, fmap, id[w])
    THEN Subscribe_on_follows_from(w, 1, FilterId_and(cxf, id[w]), map, fmap,
                                   reached \cup {w})
    ELSE reached

\* The stack calls on_follows_from of a top-level wrapper for two spans the
\* registry holds.
CallOnFollowsFrom(s, f, w) ==
    /\ pc = "idle"
    /\ s \in RegistrySpanIds /\ spans[s].created
    /\ f \in RegistrySpanIds /\ spans[f].created
    /\ w \in TopLevel
    /\ lifeCall' = [hook |-> "on_follows_from", span |-> s, follows |-> f,
                    top |-> w,
                    reached |-> Filtered_on_follows_from(w, FilterId_none,
                                    spans[s].filter_map, spans[f].filter_map, {})]
    /\ cs' = NoCallsite
    /\ ForgetOccurrence
    /\ UNCHANGED <<idVars, mapVars, stateVars, nw, parent, id, next_filter_id, pc, todo,
                   spans, auxVars>>

\* A callsite is registered with the collector: the Interest Pass begins.
RegisterDispatch ==
    /\ pc = "idle"
    /\ pc' = "register"
    /\ todo' = TopLevel
    /\ cs' = NoCallsite
    /\ lifeCall' = NoLifeCall
    /\ ForgetOccurrence
    /\ UNCHANGED <<idVars, mapVars, stateVars, nw, parent, id, next_filter_id, spans,
                   auxVars>>

\* The stack registers the callsite with a top-level wrapper.
CallRegisterCallsite(w, cin, sub) ==
    /\ pc = "register"
    /\ w \in todo
    /\ Commit(Filtered_register_callsite(w, Thread, cin, sub).t)
    /\ todo' = todo \ {w}
    /\ stateCall' = stateCall
    /\ UNCHANGED <<idVars, mapVars, nw, parent, id, next_filter_id, pc, occ, overall,
                   outcome, spans, lifeCall, auxVars>>

\* Every stage has seen the callsite: the registry answers with
\* FilterState::take_interest(), always if nothing was recorded.
RegistryRegisterCallsite ==
    /\ pc = "register"
    /\ todo = {}
    /\ LET tk == FilterState_take_interest(FILTERING)
       IN  /\ FILTERING' = tk.st
           /\ cs' = [cs EXCEPT !.result = IF tk.r = "none" THEN "always" ELSE tk.r]
    /\ pc' = "idle"
    /\ stateCall' = stateCall
    /\ UNCHANGED <<idVars, mapVars, nw, parent, id, next_filter_id, occ, todo, recorded,
                   ret, leafRet, forwarded, overall, outcome, spans, evq, lifeCall,
                   auxVars>>

Next ==
    \/ \E w \in AllWrappers : OnSubscribe(w)
    \/ Built
    \/ \E s \in SpanIds : Dispatch("span", s)
    \/ Dispatch("event", 0)
    \/ \E w \in AllWrappers : \E dec \in Inputs(w), sub \in Inputs(w) : CallEnabled(w, dec, sub)
    \/ ShortCircuit
    \/ RegistryEnabled
    \/ \E w \in AllWrappers : \E dec \in Inputs(w), sub \in Inputs(w) : CallEventEnabled(w, dec, sub)
    \/ RegistryNewSpan
    \/ \E w \in AllWrappers : CallOnEvent(w)
    \/ \E w \in AllWrappers : CallOnNewSpan(w)
    \/ RegisterDispatch
    \/ \E w \in AllWrappers : \E cin \in CallsiteInputs(w), sub \in CallsiteInputs(w) :
          CallRegisterCallsite(w, cin, sub)
    \/ RegistryRegisterCallsite
    \/ \E hook \in SpanHooks, s \in SpanIds, w \in AllWrappers : CallSpanHook(hook, s, w)

Spec == Init /\ [][Next]_vars

(***************************************************************************)
(* The follows-from harness: the same collector receiving spans only, one  *)
(* more than in Spec, and on_follows_from calls between the spans the      *)
(* registry holds.                                                         *)
(***************************************************************************)
NextFollows ==
    \/ \E w \in AllWrappers : OnSubscribe(w)
    \/ Built
    \/ \E s \in RegistrySpanIds : Dispatch("span", s)
    \/ \E w \in AllWrappers : \E dec \in Inputs(w), sub \in Inputs(w) : CallEnabled(w, dec, sub)
    \/ ShortCircuit
    \/ RegistryEnabled
    \/ RegistryNewSpan
    \/ \E w \in AllWrappers : CallOnNewSpan(w)
    \/ \E s \in RegistrySpanIds, f \in RegistrySpanIds, w \in AllWrappers :
          CallOnFollowsFrom(s, f, w)

SpecFollows == Init /\ [][NextFollows]_vars

(***************************************************************************)
(* Properties                                                              *)
(***************************************************************************)

\* The occurrence reached every stage's on_event / on_new_span.
Delivered == pc = "idle" /\ outcome = "delivered"

\* C1 as stated: for an occurrence dispatched through a collector whose
\* wrappers are all attached, each wrapper forwards on_new_span / on_event
\* at most once, and exactly when its own filter's recorded decision was
\* 'enabled', whatever the other wrappers decided.
C1_ForwardIffOwnDecision ==
    (Delivered /\ \A w \in Wrappers : Attached(w)) =>
        \A w \in Wrappers :
            /\ forwarded[w] <= 1
            /\ forwarded[w] = 1 <=> recorded[w] = "enabled"

\* C1, amended: an attached wrapper whose ancestors (the wrappers it is
\* nested in) are attached forwards on_new_span / on_event at most once, and
\* exactly when its own filter's recorded decision and the recorded
\* decision of each of its ancestors was 'enabled'; the rejection of a
\* wrapper that is not one of its ancestors never suppresses it.
C1_ForwardIffDecisions ==
    Delivered =>
        \A w \in Wrappers :
            (\A a \in {w} \cup Ancestors(w) : Attached(a)) =>
                /\ forwarded[w] <= 1
                /\ forwarded[w] = 1 <=>
                      \A a \in {w} \cup Ancestors(w) : recorded[a] = "enabled"

\* A span was delivered that one top-level wrapper rejected and its sibling
\* accepted and forwarded.
C1_Witness ==
    /\ Delivered /\ occ.kind = "span"
    /\ \E w \in TopLevel, v \in TopLevel :
          /\ Attached(w) /\ Attached(v)
          /\ recorded[v] = "disabled" /\ forwarded[v] = 0
          /\ recorded[w] = "enabled" /\ forwarded[w] = 1

\* C2: Filtered::enabled records its filter's decision for its id with
\* FilterState::set (for an attached wrapper the id's bit is set iff the
\* filter rejected), returns true whenever its own filter rejects, and
\* returns the wrapped stage's own enabled result whenever its filter
\* accepts.
C2_EnabledRecordsAndReturns ==
    pc = "enabled" =>
        \A w \in Wrappers :
            recorded[w] # "none" =>
                /\ Cardinality(id[w]) = 1 =>
                      (FilterMap_is_enabled(FILTERING.enabled, id[w])
                          <=> recorded[w] = "enabled")
                /\ recorded[w] = "disabled" => ret[w] = "true"
                /\ recorded[w] = "enabled" =>
                      (ret[w] = "true" <=>
                          /\ leafRet[w] = "true"
                          /\ \A c \in Children(w) : ret[c] = "true")

\* An attached wrapper's filter accepted and its enabled returned the false
\* of its wrapped stage; another attached wrapper's filter rejected and its
\* enabled returned true.
C2_Witness ==
    /\ pc = "enabled"
    /\ \E w \in Wrappers, v \in Wrappers :
          /\ Attached(w) /\ recorded[w] = "enabled"
          /\ leafRet[w] = "false" /\ ret[w] = "false"
          /\ Attached(v) /\ recorded[v] = "disabled" /\ ret[v] = "true"

\* C3: with two top-level wrappers W1 and W2 on one collector and an event
\* that W1's filter rejects and W2's filter accepts (W2's wrapped stage
\* being a plain subscriber that accepts): after both enabled calls both
\* returned true, W1's bit is set and W2's bit is clear in the thread's
\* map and FilterState::event_enabled() is true; when the event has been
\* delivered, W1's on_event was skipped and W2's was forwarded.
C3_OneRejectsOneAccepts ==
    \A w1 \in TopLevel, w2 \in TopLevel :
        ( /\ w1 # w2 /\ Attached(w1) /\ Attached(w2)
          /\ occ.kind = "event"
          /\ recorded[w1] = "disabled" /\ recorded[w2] = "enabled" ) =>
            /\ (pc = "enabled" /\ todo = {} /\ Children(w2) = {} /\ leafRet[w2] = "true") =>
                  /\ ret[w1] = "true" /\ ret[w2] = "true"
                  /\ BitAnd(FILTERING.enabled, id[w1]) = id[w1]
                  /\ BitAnd(FILTERING.enabled, id[w2]) = {}
                  /\ FilterState_event_enabled(FILTERING).r
            /\ Delivered =>
                  /\ overall = "true"
                  /\ forwarded[w1] = 0 /\ forwarded[w2] = 1

\* The collector has exactly the two wrappers, the event was delivered, W1
\* rejected and skipped it, W2 accepted and forwarded it.
C3_Witness ==
    /\ nw = 2 /\ TopLevel = {1, 2} /\ Attached(1) /\ Attached(2)
    /\ Delivered /\ occ.kind = "event"
    /\ recorded[1] = "disabled" /\ recorded[2] = "enabled"
    /\ ret[1] = "true" /\ ret[2] = "true"
    /\ forwarded[1] = 0 /\ forwarded[2] = 1

\* C4 as stated: with exactly two wrappers attached to one collector and an
\* event that both filters reject, FilterState::event_enabled() is false
\* after both enabled calls, and neither wrapper's on_event is forwarded.
C4_BothRejectGloballyDisabled ==
    ( /\ nw = 2 /\ TopLevel = {1, 2} /\ Attached(1) /\ Attached(2)
      /\ occ.kind = "event"
      /\ recorded[1] = "disabled" /\ recorded[2] = "disabled" ) =>
        /\ (pc = "enabled" /\ todo = {}) => ~FilterState_event_enabled(FILTERING).r
        /\ overall # "true"
        /\ forwarded[1] = 0 /\ forwarded[2] = 0

\* Masks a span query can be scoped to: the ids of the attached wrappers,
\* the context masks of the wrappers, and the non-sentinel ids of MapIds.
QueryIds ==
    ({id[w] : w \in Wrappers} \cup {CtxFilter(w) : w \in Wrappers} \cup MapIds)
        \ {FilterId_disabled}

\* C10: for the FilterMap stored with a span and non-sentinel ids a and b,
\* is_enabled(m, and(a, b)) holds iff is_enabled(m, a) and is_enabled(m, b)
\* both hold; with W2 nested under W1, a span that W1 accepted and W2
\* rejected is enabled for W1's id alone and not enabled for the union of
\* the ids of W1 and W2.
C10_UnionQuery ==
    /\ \A s \in SpanIds :
          spans[s].created =>
              \A a \in QueryIds, b \in QueryIds :
                  FilterMap_is_enabled(spans[s].filter_map, FilterId_and(a, b))
                      <=> /\ FilterMap_is_enabled(spans[s].filter_map, a)
                          /\ FilterMap_is_enabled(spans[s].filter_map, b)
    /\ \A w1 \in Wrappers, w2 \in Wrappers :
          ( /\ parent[w2] = w1 /\ Attached(w1) /\ Attached(w2)
            /\ occ.kind = "span" /\ spans[occ.span].created
            /\ recorded[w1] = "enabled" /\ recorded[w2] = "disabled" ) =>
              /\ FilterMap_is_enabled(spans[occ.span].filter_map, id[w1])
              /\ ~FilterMap_is_enabled(spans[occ.span].filter_map,
                                       FilterId_and(id[w1], id[w2]))

\* A span was stored that the outer wrapper W1 accepted and the wrapper W2
\* nested in it rejected: W2's bit alone is set in the stored map.
C10_Witness ==
    \E w1 \in Wrappers, w2 \in Wrappers :
        /\ parent[w2] = w1 /\ Attached(w1) /\ Attached(w2)
        /\ occ.kind = "span" /\ spans[occ.span].created
        /\ recorded[w1] = "enabled" /\ recorded[w2] = "disabled"
        /\ spans[occ.span].filter_map = id[w2]
        /\ CtxFilter(w2) = FilterId_and(id[w1], id[w2])

C6_OwnBits(i) ==
    /\ i # FilterId_disabled
    /\ i # FilterId_none
    /\ \A j \in MapIds :
          (lastSet[j] # "none" /\ j # i /\ j # FilterId_disabled) => BitAnd(i, j) = {}

\* C6 as stated, over any ids: after any sequence of FilterMap::set calls
\* from the empty map, is_enabled(id) is the argument of the last set call
\* made for id.
C6_LastSetAnyId ==
    \A i \in MapIds :
        lastSet[i] # "none" => (FilterMap_is_enabled(m, i) <=> lastSet[i] = "true")

\* C6, amended: after any sequence of FilterMap::set calls from the empty
\* map, is_enabled(id) is the argument of the last set call made for id,
\* for every id that is neither the DISABLED sentinel nor none() and shares
\* no bit with a different non-sentinel id set in the sequence (so for any
\* sequence over distinct single-bit ids).
C6_LastSet ==
    \A i \in MapIds :
        (lastSet[i] # "none" /\ C6_OwnBits(i)) =>
            (FilterMap_is_enabled(m, i) <=> lastSet[i] = "true")

\* Two ids with bits of their own were set, one to disabled and one to
\* enabled, and the map shows both.
C6_Witness ==
    \E i \in MapIds, j \in MapIds :
        /\ i # j /\ C6_OwnBits(i) /\ C6_OwnBits(j)
        /\ lastSet[i] = "false" /\ lastSet[j] = "true"
        /\ ~FilterMap_is_enabled(m, i) /\ FilterMap_is_enabled(m, j)

\* C7: any_enabled() is false iff all 64 bits of the map are set; with 63
\* of the 64 bits set it is true.
C7_AnyEnabled ==
    /\ ~FilterMap_any_enabled(m) <=> (\A b \in Bits : b \in m)
    /\ Cardinality(m) = WordBits - 1 => FilterMap_any_enabled(m)

\* The map has all 64 bits set and any_enabled() is false.
C7_Witness == Cardinality(m) = WordBits /\ ~FilterMap_any_enabled(m)

\* C8: FilterId::and is idempotent for every id and commutative for every
\* pair of ids neither of which is the DISABLED sentinel.
C8_UnionIdempotentCommutative ==
    andCall.done =>
        /\ andCall.a = andCall.b => andCall.ab = andCall.a
        /\ (andCall.a # FilterId_disabled /\ andCall.b # FilterId_disabled)
              => andCall.ab = andCall.ba

\* and was applied to two different non-empty non-sentinel ids and gave the
\* same mask in both orders.
C8_Witness ==
    /\ andCall.done
    /\ andCall.a # andCall.b
    /\ {andCall.a, andCall.b} \cap {FilterId_disabled, FilterId_none} = {}
    /\ andCall.ab = andCall.ba
    /\ andCall.ab = BitOr(andCall.a, andCall.b)

\* C9: and(DISABLED, x) = x for every x, whereas and(x, DISABLED) for a
\* non-sentinel x is the plain bitwise OR, which is DISABLED and not x.
C9_SentinelAbsorptionOneSided ==
    andCall.done =>
        /\ andCall.a = FilterId_disabled => andCall.ab = andCall.b
        /\ (andCall.b = FilterId_disabled /\ andCall.a # FilterId_disabled) =>
              /\ andCall.ab = BitOr(andCall.a, andCall.b)
              /\ andCall.ab = FilterId_disabled
              /\ andCall.ab # andCall.a

\* and(x, DISABLED) was applied to a single-bit x and gave DISABLED, while
\* and(DISABLED, x) gave x.
C9_Witness ==
    /\ andCall.done
    /\ Cardinality(andCall.a) = 1
    /\ andCall.b = FilterId_disabled
    /\ andCall.ab = FilterId_disabled
    /\ andCall.ba = andCall.a

\* C11: attaching N <= 64 Filtered wrappers to one collector gives N
\* pairwise distinct ids with exactly one bit each, the k-th being
\* FilterId::new(k); the assertion of FilterId::new fails for every index
\* >= 64, so the 65th attachment fails and produces no id.
C11_DistinctSingleBitIds ==
    /\ Len(attach.ids) = attach.next
    /\ Len(attach.ids) <= WordBits
    /\ \A k \in 1 .. Len(attach.ids) :
          /\ attach.ids[k] = FilterId_new(k - 1)
          /\ Cardinality(attach.ids[k]) = 1
          /\ attach.ids[k] \subseteq Bits
          /\ \A j \in 1 .. Len(attach.ids) : j # k => attach.ids[j] # attach.ids[k]
    /\ attach.failed => Len(attach.ids) = WordBits
    /\ \A i \in WordBits .. (MaxStages + 1) : ~FilterId_new_ok(i)

\* 64 wrappers were attached and the attachment of the 65th failed.
C11_Witness == attach.failed /\ Len(attach.ids) = WordBits

\* The aggregate of a non-empty set of recorded Interests: the common value
\* if there is one, sometimes otherwise.
Aggregate(S) == IF \E v \in Interests : S = {v} THEN CHOOSE v \in Interests : S = {v}
                ELSE "sometimes"

\* The wrappers whose register_callsite ran for the callsite.
Registered == {w \in Wrappers : cs.ans[w] # "none"}

\* C12: Filtered::register_callsite returns always whatever its filter's
\* callsite_enabled answered, and records the filter's answer with
\* add_interest exactly once: during the Interest Pass the pass counter is
\* the number of wrappers called and the thread's aggregate is that of the
\* filters' answers.
C12_RegisterCallsiteAlways ==
    /\ \A w \in Registered : cs.ret[w] = "always" /\ cs.adds[w] = 1
    /\ pc = "register" =>
          /\ FILTERING.in_interest_pass = Cardinality(Registered)
          /\ FILTERING.interest =
                (IF Registered = {} THEN "none"
                 ELSE Aggregate({cs.ans[w] : w \in Registered}))

\* A wrapper's filter answered never: the wrapper returned always and the
\* thread's aggregate is never.
C12_Witness ==
    /\ pc = "register"
    /\ \E w \in Wrappers :
          /\ cs.ans[w] = "never" /\ cs.ret[w] = "always" /\ cs.adds[w] = 1
          /\ FILTERING.interest = "never"

\* C16: the Interest Pass and the Filter Pass never interleave: outside a
\* callsite registration, so whenever a wrapper's enabled, event_enabled,
\* on_event or on_new_span (FilterState::set, and, did_enable) can run, the
\* interest-pass counter is 0 and no aggregate is pending.
C16_PassesNeverInterleave ==
    pc # "register" =>
        FILTERING.in_interest_pass = 0 /\ FILTERING.interest = "none"

\* A callsite registration during which a wrapper added its interest has
\* ended with take_interest, and the thread is free for a Filter Pass.
C16_Witness ==
    /\ pc = "idle"
    /\ cs.result # "none"
    /\ \E w \in Wrappers : cs.adds[w] = 1
    /\ FILTERING.in_interest_pass = 0

\* The interests added by the first k add_interest calls of the pass.
AddedUpTo(k) == {added[j] : j \in 1 .. k}

\* C13: within one Interest Pass, after any non-empty sequence of
\* add_interest calls the aggregate is v if every recorded interest was
\* the same value v and sometimes otherwise; it depends on the values
\* recorded and not on their order, and once a prefix of the calls has
\* made it sometimes it stays sometimes.
C13_InterestAggregate ==
    added # <<>> =>
        /\ FILTERING.interest = Aggregate(AddedUpTo(Len(added)))
        /\ (\A j \in 1 .. Len(added) : added[j] = added[1])
              => FILTERING.interest = added[1]
        /\ (\E j \in 1 .. Len(added) : added[j] # added[1])
              => FILTERING.interest = "sometimes"
        /\ \A k \in 1 .. Len(added) :
              Aggregate(AddedUpTo(k)) = "sometimes" => FILTERING.interest = "sometimes"

\* never and then always made the aggregate sometimes, and a further never
\* left it sometimes.
C13_Witness ==
    /\ Len(added) >= 3
    /\ added[1] = "never" /\ added[2] = "always" /\ added[3] = "never"
    /\ FILTERING.interest = "sometimes"

\* C17 as stated: after FilterState::clear_enabled the thread's FilterMap
\* is all-zero, the aggregated Interest is none and both debug pass
\* counters are 0, whatever the state before.
C17_ClearEnabledResetsAll ==
    (stateCall.op = "clear_enabled" /\ tls.alive) =>
        /\ FILTERING.enabled = FilterMap_new
        /\ FILTERING.interest = "none"
        /\ FILTERING.in_filter_pass = 0
        /\ FILTERING.in_interest_pass = 0

\* C18: once the thread-local is destroyed, FilterState::event_enabled()
\* returns true, take_interest() returns no interest and clear_enabled()
\* does nothing: the cell keeps the value it had at its destruction.
C18_TeardownDefaults ==
    ~tls.alive =>
        /\ FILTERING = tls.last
        /\ stateCall.op = "event_enabled" => stateCall.res = "true"
        /\ stateCall.op = "take_interest" => stateCall.res = "none"
        /\ stateCall.op \in {"teardown", "event_enabled", "take_interest", "clear_enabled"}

\* The thread-local was destroyed with every bit of its map set and an
\* interest pending, and event_enabled() answered true.
C18_Witness ==
    /\ ~tls.alive
    /\ stateCall.op = "event_enabled" /\ stateCall.res = "true"
    /\ tls.last.enabled = U64_MAX
    /\ tls.last.interest # "none"

\* C14: a span hook (on_record, on_enter, on_exit, on_close, on_id_change)
\* called for a span reaches a wrapper's wrapped stage only if the FilterMap
\* stored with the span shows the wrapper's id, combined with the mask of
\* the context it was called with, as enabled (exactly when the ids of the
\* wrapper and of the wrappers it is nested in are all enabled in it); a
\* wrapper whose bit is set in the stored map is never reached.
C14_SpanHooksFollowStoredMap ==
    lifeCall.hook # "none" =>
        LET map == spans[lifeCall.span].filter_map
        IN  \A w \in Subtree(lifeCall.top) :
                /\ w \in lifeCall.reached => FilterMap_is_enabled(map, CtxFilter(w))
                /\ w \in lifeCall.reached <=>
                      \A a \in {w} \cup Ancestors(w) : FilterMap_is_enabled(map, id[a])
                /\ BitAnd(map, id[w]) # {} => w \notin lifeCall.reached

\* A span hook reached the attached wrapper it was called on, for a span
\* whose stored map has the bit of another attached wrapper set.
C14_Witness ==
    /\ lifeCall.hook \in SpanHooks
    /\ lifeCall.top \in lifeCall.reached
    /\ Attached(lifeCall.top)
    /\ \E v \in Wrappers :
          /\ Attached(v)
          /\ BitAnd(spans[lifeCall.span].filter_map, id[v]) = id[v]

\* C15 as stated, for any wrapper: the decision made at a span's creation
\* is replayed for its whole lifetime: a span hook reaches the wrapped
\* stage of a wrapper iff that wrapper forwarded on_new_span for the span.
C15_ReplayedForEveryWrapper ==
    lifeCall.hook # "none" =>
        \A w \in Subtree(lifeCall.top) :
            w \in lifeCall.reached <=> w \in spans[lifeCall.span].fwd

\* C15, amended: the decision made at a span's creation is replayed for
\* its whole lifetime: a span hook reaches the wrapped stage of an attached
\* wrapper (nested in attached wrappers only) iff that wrapper forwarded
\* on_new_span for the span, whatever was dispatched in between and
\* whatever its filter answered for later occurrences.
C15_SpanDecisionReplayed ==
    lifeCall.hook # "none" =>
        \A w \in Subtree(lifeCall.top) :
            (\A a \in {w} \cup Ancestors(w) : Attached(a)) =>
                (w \in lifeCall.reached <=> w \in spans[lifeCall.span].fwd)

\* A span hook reached a wrapper that forwarded on_new_span for the span
\* and has rejected an occurrence dispatched since.
C15_Witness ==
    /\ lifeCall.hook \in SpanHooks
    /\ spans[lifeCall.span].flipped
    /\ \E w \in lifeCall.reached : Attached(w) /\ w \in spans[lifeCall.span].fwd

\* The wrappers whose event_enabled ran for the event.
Queried == {w \in Wrappers : evq[w].ans # "none"}

\* C19 as stated, for any wrapper: FilterState::and(id, p) returns
\* (is_enabled(id) before the call) AND p(), writes the result back as
\* id's decision and does not evaluate p when id was already rejected, so
\* that Filtered::event_enabled never calls its filter's event_enabled for
\* an event its enabled rejected, returns true upward in that case and
\* never turns a rejected id back to enabled.
C19_AndRefinesEveryWrapper ==
    \A w \in Queried :
        /\ evq[w].ans = "skipped" <=> evq[w].open = "false"
        /\ recorded[w] = "enabled" <=> (evq[w].open = "true" /\ evq[w].ans = "true")
        /\ pc = "event_enabled" =>
              (FilterMap_is_enabled(FILTERING.enabled, id[w]) <=> recorded[w] = "enabled")
        /\ evq[w].was = "disabled" =>
              /\ evq[w].ans = "skipped"
              /\ ret[w] = "true"
              /\ recorded[w] = "disabled"

\* C19, amended: the same for every attached wrapper (single-bit id).
C19_AndRefines ==
    \A w \in Queried :
        Attached(w) =>
            /\ evq[w].ans = "skipped" <=> evq[w].open = "false"
            /\ recorded[w] = "enabled" <=> (evq[w].open = "true" /\ evq[w].ans = "true")
            /\ pc = "event_enabled" =>
                  (FilterMap_is_enabled(FILTERING.enabled, id[w]) <=> recorded[w] = "enabled")
            /\ evq[w].was = "disabled" =>
                  /\ evq[w].ans = "skipped"
                  /\ ret[w] = "true"
                  /\ recorded[w] = "disabled"

\* One attached wrapper's enabled had rejected the event: its filter's
\* event_enabled was skipped and it returned true; another's enabled had
\* accepted it and its filter's event_enabled rejected it.
C19_Witness ==
    /\ pc = "event_enabled"
    /\ \E w \in Queried, v \in Queried :
          /\ Attached(w) /\ evq[w].was = "disabled" /\ evq[w].ans = "skipped"
          /\ ret[w] = "true"
          /\ Attached(v) /\ evq[v].was = "enabled" /\ evq[v].ans = "false"
          /\ recorded[v] = "disabled"
          /\ ~FilterMap_is_enabled(FILTERING.enabled, id[v])

\* C20: under SpecComb, every call of And(A, B).enabled returns
\* A.enabled AND B.enabled for the answers the two stubs give to the
\* occurrence, asks A exactly once, and does not ask B when A answered
\* false.
C20_AndShortCircuits ==
    comb.op = "and" =>
        /\ comb.r = (comb.a /\ comb.b)
        /\ comb.a_ran
        /\ (~comb.a => ~comb.b_ran)
        /\ comb.a_calls = comb.calls
        /\ comb.b_calls <= comb.a_calls

\* A rejected after B was asked in earlier calls: B's counter stands still
\* although B would have accepted.
C20_Witness ==
    /\ comb.op = "and" /\ ~comb.a /\ comb.b /\ ~comb.r /\ ~comb.b_ran
    /\ comb.b_calls > 0 /\ comb.b_calls < comb.calls

\* C21: under SpecComb, every call of Or(A, B).enabled returns
\* A.enabled OR B.enabled for the answers the two stubs give to the
\* occurrence, asks A exactly once, and does not ask B when A answered
\* true.
C21_OrShortCircuits ==
    comb.op = "or" =>
        /\ comb.r = (comb.a \/ comb.b)
        /\ comb.a_ran
        /\ (comb.a => ~comb.b_ran)
        /\ (~comb.a => comb.b_ran)

\* A accepted after B was asked in earlier calls: B is not asked although
\* B would have rejected.
C21_Witness ==
    /\ comb.op = "or" /\ comb.a /\ ~comb.b /\ comb.r /\ ~comb.b_ran
    /\ comb.b_calls > 0 /\ comb.b_calls < comb.calls

\* C22: under SpecComb, Not(A).callsite_enabled is always exactly when A's
\* is never, never exactly when A's is always, and sometimes when A's is
\* sometimes; Not(Not(A)) gives back A's callsite_enabled and A's enabled.
C22_NotInvertsInterest ==
    /\ (comb.op = "not" /\ comb.m = "callsite_enabled") =>
           /\ (comb.ir = "always") = (comb.ia = "never")
           /\ (comb.ir = "never") = (comb.ia = "always")
           /\ (comb.ir = "sometimes") = (comb.ia = "sometimes")
    /\ (comb.op = "notnot" /\ comb.m = "callsite_enabled") =>
           comb.ir = comb.ia
    /\ (comb.op = "notnot" /\ comb.m = "enabled") =>
           comb.r = comb.a /\ comb.a_ran

\* Not(Not(A)) asked for a callsite A always wants: the inner Not said
\* never, the outer one always.
C22_Witness ==
    /\ comb.op = "notnot" /\ comb.m = "callsite_enabled"
    /\ comb.ia = "always" /\ comb.imid = "never" /\ comb.ir = "always"

C24_OptionFilter ==
    builtin.kind = "option" =>
        IF builtin.self = << >>
        THEN /\ builtin.m \in {"enabled", "event_enabled"} => builtin.r
             /\ builtin.m = "callsite_enabled" => builtin.ir = "always"
             /\ builtin.m = "max_level_hint" => builtin.hr = {}
        ELSE /\ builtin.m = "enabled" =>
                    builtin.r = builtin.self[1].enabled
             /\ builtin.m = "event_enabled" =>
                    builtin.r = builtin.self[1].event_enabled
             /\ builtin.m = "callsite_enabled" =>
                    builtin.ir = builtin.self[1].callsite_enabled
             /\ builtin.m = "max_level_hint" =>
                    builtin.hr = builtin.self[1].max_level_hint

\* An absent filter was asked enabled and accepted.
C24_Witness ==
    /\ builtin.kind = "option" /\ builtin.m = "enabled"
    /\ builtin.self = << >> /\ builtin.r

\* C25: under SpecBuiltin, the level filter's enabled is true iff the
\* occurrence's level is at most the threshold, its callsite_enabled is
\* always when enabled would be true and never otherwise, and its
\* max_level_hint is the threshold.
C25_LevelFilter ==
    builtin.kind = "level" =>
        /\ builtin.m = "enabled" =>
               builtin.r = (builtin.level <= builtin.threshold)
        /\ builtin.m = "callsite_enabled" =>
               /\ builtin.ir \in {"always", "never"}
               /\ (builtin.ir = "always") =
                      LevelFilter_enabled(builtin.threshold, builtin.level)
        /\ builtin.m = "max_level_hint" => builtin.hr = {builtin.threshold}

\* A callsite whose level equals the threshold: the filter always wants it.
C25_Witness ==
    /\ builtin.kind = "level" /\ builtin.m = "callsite_enabled"
    /\ builtin.level = builtin.threshold /\ builtin.ir = "always"

\* C26: under Spec, whenever no occurrence is being dispatched the thread's
\* live FilterMap is all-zero: every bit set while an occurrence was
\* filtered has been cleared by the time its dispatch is complete.
C26_MapClearedAfterDispatch ==
    pc = "idle" => FILTERING.enabled = FilterMap_new

\* C27: under SpecWide, in every reachable state of a debug build the live
\* FilterMap is all-zero whenever the filter-pass counter is 0, and no
\* debug assertion of set, did_enable, event_enabled or filter_map has
\* failed, for 1 to 64 attached filters and every mix of decisions.
C27_DebugInvariant ==
    /\ FILTERING.in_filter_pass = 0 => FILTERING.enabled = FilterMap_new
    /\ wide.failed = "none"

C29_SetAndSentinel ==
    /\ stateCall.op = "set" =>
           FILTERING.enabled =
              IF stateCall.id = FilterId_disabled THEN stateCall.before
              ELSE IF stateCall.was_enabled
                   THEN stateCall.before \ stateCall.id
                   ELSE stateCall.before \cup stateCall.id
    /\ (stateCall.op = "and" /\ stateCall.id = FilterId_disabled) =>
           FILTERING.enabled = stateCall.before

\* set was called with the sentinel and a rejecting decision on a map that
\* holds another filter's bit and is not full: the map is as it was.
C29_Witness ==
    /\ stateCall.op = "set" /\ stateCall.id = FilterId_disabled
    /\ ~stateCall.was_enabled
    /\ stateCall.before # FilterMap_new /\ stateCall.before # U64_MAX
    /\ FILTERING.enabled = stateCall.before

\* Wrappers whose on_follows_from ran in the last call: the top-level
\* wrapper called by the stack and every wrapper whose parent forwarded.
FollowsCalled ==
    {w \in Subtree(lifeCall.top) :
        w = lifeCall.top \/ parent[w] \in lifeCall.reached}

\* C30 as stated, for every wrapper: on_follows_from(span, follows) is
\* forwarded to the wrapped stage iff both spans are enabled for the
\* wrapper's id in their stored FilterMaps, and nothing is forwarded when
\* the wrapper's filter rejected either span.
C30_FollowsFromEveryWrapper ==
    lifeCall.hook = "on_follows_from" =>
        \A w \in FollowsCalled :
            /\ w \in lifeCall.reached <=>
                   /\ FilterMap_is_enabled(spans[lifeCall.span].filter_map, id[w])
                   /\ FilterMap_is_enabled(spans[lifeCall.follows].filter_map, id[w])
            /\ (w \in spans[lifeCall.span].rej \/ w \in spans[lifeCall.follows].rej)
                   => w \notin lifeCall.reached

\* C30, amended: under SpecFollows, on_follows_from(span, follows) is
\* forwarded to the wrapped stage iff both spans are enabled for the
\* wrapper's id in their stored FilterMaps; for an attached wrapper nothing
\* is forwarded when its filter rejected either span, whereas the
\* rejections of a wrapper never attached are in no stored map.
C30_FollowsFrom ==
    lifeCall.hook = "on_follows_from" =>
        \A w \in FollowsCalled :
            /\ w \in lifeCall.reached <=>
                   /\ FilterMap_is_enabled(spans[lifeCall.span].filter_map, id[w])
                   /\ FilterMap_is_enabled(spans[lifeCall.follows].filter_map, id[w])
            /\ ( /\ Attached(w)
                 /\ (w \in spans[lifeCall.span].rej
                        \/ w \in spans[lifeCall.follows].rej) )
                   => w \notin lifeCall.reached

\* An attached wrapper accepted the span and rejected the different span it
\* follows: its on_follows_from ran and forwarded nothing.
C30_Witness ==
    /\ lifeCall.hook = "on_follows_from"
    /\ lifeCall.span # lifeCall.follows
    /\ Attached(lifeCall.top)
    /\ lifeCall.top \in spans[lifeCall.span].fwd
    /\ lifeCall.top \in spans[lifeCall.follows].rej
    /\ lifeCall.top \notin lifeCall.reached

\* C31: under Spec, a wrapper whose register_callsite ran called its
\* wrapped stage's register_callsite iff its own filter's callsite Interest
\* is not never; it returned always and added its own filter's Interest,
\* whatever Interest the wrapped stage returned; a nested wrapper's
\* register_callsite ran only when its parent's filter did not answer
\* never.
C31_RegisterCallsiteForwarding ==
    \A w \in Registered :
        /\ (cs.sub[w] # "none") = (cs.ans[w] # "never")
        /\ cs.ret[w] = "always"
        /\ cs.added[w] = cs.ans[w]
        /\ parent[w] # 0 =>
               parent[w] \in Registered /\ cs.ans[parent[w]] # "never"

\* The filter answered always, the wrapped stage was called and answered
\* never: the wrapper added always and returned always.
C31_Witness ==
    \E w \in Registered :
        /\ cs.ans[w] = "always" /\ cs.sub[w] = "never"
        /\ cs.added[w] = "always" /\ cs.ret[w] = "always"
        /\ FILTERING.interest = "always"

\* C32: under SpecThread, on a live thread take_interest returns the
\* aggregate of the add_interest calls made since the previous
\* take_interest, none if there were none (so none when it is repeated at
\* once), and leaves the aggregate none; the add_interest calls made after
\* it aggregate among themselves only.
C32_TakeInterest ==
    /\ (stateCall.op = "take_interest" /\ tls.alive) =>
           /\ stateCall.res =
                  (IF stateCall.pending = << >> THEN "none"
                   ELSE Aggregate({stateCall.pending[j] :
                                      j \in 1 .. Len(stateCall.pending)}))
           /\ FILTERING.interest = "none"
           /\ FILTERING.in_interest_pass = 0
    /\ (tls.alive /\ added = << >>) => FILTERING.interest = "none"
    /\ (tls.alive /\ added # << >>) =>
           FILTERING.interest = Aggregate(AddedUpTo(Len(added)))

\* take_interest returned sometimes for a pass that added always and never,
\* and the cell holds no aggregate.
C32_Witness ==
    /\ stateCall.op = "take_interest" /\ tls.alive
    /\ Len(stateCall.pending) = 2
    /\ stateCall.pending[1] = "always" /\ stateCall.pending[2] = "never"
    /\ stateCall.res = "sometimes"
    /\ FILTERING.interest = "none"

\* C33: under SpecFrame, FilterState::set(id, _), and(id, p) and
\* did_enable(id, f) called with a single-bit id leave every bit of the map
\* other than id's as it was, and leave the aggregated Interest as it was.
C33_Frame ==
    (/\ stateCall.op \in {"set", "and", "did_enable"}
     /\ Cardinality(stateCall.id) = 1) =>
        /\ FILTERING.enabled \ stateCall.id = stateCall.before \ stateCall.id
        /\ FILTERING.interest = stateCall.interest

\* did_enable skipped its continuation for a single-bit id and cleared that
\* bit while another filter's bit stayed set and an Interest was pending.
C33_Witness ==
    /\ stateCall.op = "did_enable" /\ Cardinality(stateCall.id) = 1
    /\ stateCall.ran = 0
    /\ stateCall.id \subseteq stateCall.before
    /\ FILTERING.enabled = stateCall.before \ stateCall.id
    /\ FILTERING.enabled # FilterMap_new
    /\ stateCall.interest = "sometimes" /\ FILTERING.interest = "sometimes"

\* Wrappers never attached whose on_event / on_new_span ran for the current
\* occurrence.
NotifiedUnattached == {w \in Wrappers : ~Attached(w) /\ evq[w].called}

\* C34 as stated: a never-attached wrapper forwards on_event / on_new_span
\* iff no other filter rejected the occurrence.
C34_ForwardedIffNoOtherRejected ==
    \A w \in NotifiedUnattached :
        forwarded[w] > 0 <=>
           ~\E v \in Wrappers \ {w} : recorded[v] = "disabled"

\* C34: for a wrapper that was never attached (id DISABLED), on_event /
\* on_new_span forwards iff the thread's map was all-zero when it ran, and
\* the call leaves the map as it found it; the bits it found are bits of
\* attached wrappers only, its own filter's decision having left none.
C34_DisabledWrapper ==
    \A w \in NotifiedUnattached :
        /\ forwarded[w] > 0 <=> evq[w].seen = FilterMap_new
        /\ evq[w].left = evq[w].seen
        /\ evq[w].seen \subseteq UNION {id[v] : v \in {u \in Wrappers : Attached(u)}}

\* A never-attached wrapper whose own filter rejected the event forwarded
\* it although an attached wrapper had rejected it too: that wrapper's
\* on_event had already consumed its bit.
C34_Witness ==
    \E w \in NotifiedUnattached :
        /\ occ.kind = "event"
        /\ recorded[w] = "disabled"
        /\ forwarded[w] > 0
        /\ \E v \in Wrappers : Attached(v) /\ recorded[v] = "disabled"

\* The single-bit ids of the wrappers of one Filter Pass.
PassIds == {FilterId_new(k) : k \in 0 .. NumIds}

\* The orders in which the wrappers' enabled calls of one Filter Pass can
\* reach FilterState::set.
PassOrders ==
    {o \in [1 .. Cardinality(PassIds) -> PassIds] :
        \A a \in DOMAIN o, b \in DOMAIN o : a # b => o[a] # o[b]}

\* The map after the first k enabled calls of a Filter Pass that starts
\* from bits: each wrapper's enabled applies FilterMap::set with its id and
\* its filter's decision.
RECURSIVE FilterPass(_, _, _, _)
FilterPass(bits, order, dec, k) ==
    IF k = 0 THEN bits
    ELSE FilterMap_set(FilterPass(bits, order, dec, k - 1), order[k], dec[order[k]])

\* C35: under SpecMap, on every map a sequence of set calls produces,
\* FilterMap::set is idempotent for every id, set calls on distinct
\* single-bit ids commute, and the map produced by one Filter Pass over
\* single-bit ids is the same for every order of the enabled calls: the
\* starting map with the accepting ids' bits cleared and the rejecting
\* ids' bits set.
C35_SetOrderIndependent ==
    /\ \A i \in MapIds, e \in BOOLEAN :
           FilterMap_set(FilterMap_set(m, i, e), i, e) = FilterMap_set(m, i, e)
    /\ \A i \in PassIds, j \in PassIds : i # j =>
           \A e \in BOOLEAN, f \in BOOLEAN :
              FilterMap_set(FilterMap_set(m, i, e), j, f)
                 = FilterMap_set(FilterMap_set(m, j, f), i, e)
    /\ \A dec \in [PassIds -> BOOLEAN], o \in PassOrders :
           FilterPass(m, o, dec, Cardinality(PassIds))
              = (m \ UNION {i \in PassIds : dec[i]})
                   \cup UNION {i \in PassIds : ~dec[i]}

\* Two single-bit ids were set with opposite decisions on a map that holds
\* other bits: the rejected id's bit is set and the accepted id's is clear.
C35_Witness ==
    /\ lastSet[FilterId_new(0)] = "false" /\ lastSet[FilterId_new(1)] = "true"
    /\ lastSet[HighMask(NumIds)] = "false"
    /\ BitAnd(m, FilterId_new(0) \cup FilterId_new(1)) = FilterId_new(0)
    /\ HighMask(NumIds) \subseteq m

====
